---- MODULE Spec2Model ----
(***************************************************************************)
(* Model of the moderation service core (ngomaneneo24-hub/Monosonet):      *)
(*   - the sliding-window rate limiter of api/middleware.rs (SpecRL)       *)
(*   - the report manager of core/reports.rs with the signal store of      *)
(*     core/signals.rs and the durable store of storage/db.rs (Spec,       *)
(*     SpecTypes, SpecUpdates)                                             *)
(*   - the signal store and its sweeper (SpecSig), the rules, pipelines    *)
(*     and processing loop of core/signals.rs (SpecRules, SpecLoop), its   *)
(*     processing queue (SpecQueue) and its result bus (SpecBus)           *)
(*   - the investigations of core/reports.rs (SpecInv) and the agreement   *)
(*     of the report manager with the durable store (SpecAgree)            *)
(*   - the classifier of core/classifier.rs (SpecCl, SpecBatch)            *)
(*   - the policy of core/rules.rs (SpecPolicy)                            *)
(*   - the model manager of core/ml_models.rs (SpecMl, SpecHealth)         *)
(***************************************************************************)
EXTENDS Integers, Sequences, FiniteSets, TLC

(* ------------------------------ bounds -------------------------------- *)
\* rate limiter
MaxMs == 3          \* the millisecond clock runs 0..MaxMs
MaxReq == 3         \* requests issued in one behaviour
MaxLimit == 2       \* RateLimitLayer.limit is drawn from 1..MaxLimit
MaxWindow == 2      \* RateLimitLayer.window (ms) is drawn from 1..MaxWindow

\* report manager
MaxTime == 1        \* the clock of Utc::now() runs 0..MaxTime
MaxOps == 3         \* report-manager calls started in one behaviour
Day == 1            \* chrono::Duration::days(1), in clock ticks
max_reports_per_user == 1   \* ReportManagerConfig.max_reports_per_user, scaled down

\* classifier
MaxClassify == 2    \* classify calls made by clients in one behaviour
MaxBatch == 3       \* longest request list handed to classify_batch
batch_size == 2     \* the chunk length of classify_batch (32), scaled down

\* policy
MaxScore == 95      \* scores run 0..MaxScore on the scale of 90 to 1.0
MaxEvals == 2       \* evaluate_policy calls in one behaviour

\* model manager
max_concurrent_inferences == 2  \* ModelManagerConfig.max_concurrent_inferences (16), scaled down

\* signal processing
MaxRules == 2       \* add_rule calls in one behaviour
MaxPipelines == 2   \* pipelines registered with add_pipeline
MaxQueue == 1       \* the capacity of the processing queue is capped at this
MaxBus == 1         \* the capacity of a broadcast channel is capped at this

\* signal store
MaxSigTime == 4     \* the clock of the signal store runs 0..MaxSigTime
MaxSignals == 2     \* add_signal calls made by clients in one behaviour
CleanupInterval == 2    \* SignalProcessorConfig.cleanup_interval_seconds, in ticks

Keys == {"k1"}                  \* client keys ("rate:<ip>")
Insts == {"i1", "i2"}           \* service instances / in-flight calls

VARIABLES
    \* ---- rate limiter (middleware.rs + the shared counter store) ----
    rlLimit,      \* RateLimitService.limit
    rlWindow,     \* RateLimitService.window, in ms
    rlClock,      \* the wall clock read by millis()
    zset,         \* counter store: key -> set of [member, score]
    expireAt,     \* counter store: key -> time the key expires (PEXPIRE), or -1
    rlPc,         \* per instance: "idle" | "invoke"
    rlKey,        \* per instance: key of the request in flight
    rlNow,        \* per instance: now_ms read by check_allow
    rlLog         \* answered requests, in the order the answers were decided

VARIABLES
    \* ---- report manager (reports.rs, signals.rs, db.rs) ----
    now,            \* Utc::now() / the database's NOW()
    nextUuid,       \* the next value of Uuid::new_v4() for a report
    reports,        \* ReportManager.reports: id -> UserReport
    investigations, \* ReportManager.investigations: id -> ReportInvestigation
    db,             \* table user_reports of the durable store: id -> row
    signals,        \* SignalProcessor.signals: id -> Signal
    queue,          \* SignalProcessor.signal_tx: ids of the signals sent
    events,         \* messages sent on ReportManager.event_tx, in order
    lockW,          \* holder of the write guard of ReportManager.reports
    task,           \* per caller: the call in progress and its locals
    ret,            \* the last call that returned: caller, arguments, value
    transitions,    \* history: the status changes applied to the map, in order
    opCount         \* calls started so far

VARIABLES
    \* ---- signal store (signals.rs): the sweeper and its clients ----
    nextSweep,      \* deadline of the cleanup loop's next interval.tick()
    added           \* history: the signals clients passed to add_signal

VARIABLES
    \* ---- classifier (classifier.rs, ml_models.rs) ----
    cfg,            \* ProductionClassifier.config
    ruleOrder,      \* iteration order of RuleBasedClassifier.regex_patterns
    cache,          \* ProductionClassifier.cache: content_id -> result
    mlCache,        \* MlModelManager.model_cache: <<text, language>> -> output
    slot,           \* the classify calls in progress and their locals
    clLog,          \* classify calls that returned to a client, in order
    clUuid,         \* the next Uuid::new_v4() of a ClassificationResult
    clCount,        \* classify calls started by clients so far
    clCalls,        \* history: language detections and model inferences made
    batch           \* the classify_batch call in progress, or its return value

VARIABLES
    \* ---- policy (rules.rs) ----
    policyLog       \* history: the scores evaluate_policy was called with and
                    \* the decisions it returned

VARIABLES
    \* ---- signal processing (signals.rs): rules, pipelines, the loop ----
    rules,          \* SignalProcessor.rules
    pipelines,      \* SignalProcessor.pipelines, in the map's iteration order
    taken,          \* how many of the signals sent the processing loop received
    loop,           \* the processing loop: its position and locals
    bus,            \* the PipelineResults sent on pipeline_tx, in order
    spTrace,        \* history: the steps of the processing loop, in order
    subs            \* per subscriber: its broadcast::Receiver and what it
                    \* has received from it

VARIABLES
    \* ---- model manager (ml_models.rs) ----
    registry,       \* MlModelManager.models: the ids, in iteration order
    active,         \* MlModelManager.active_model
    healthy,        \* per model: what is_healthy() answers now
    permits,        \* permits left in MlModelManager.inference_semaphore
    mmTask,         \* per caller: the classify_text / classify_batch call
    hc              \* the health check loop: its position and locals, "off"
                    \* until initialize starts it

rlVars == <<rlLimit, rlWindow, rlClock, zset, expireAt, rlPc, rlKey, rlNow, rlLog>>

rmVars == <<now, nextUuid, reports, investigations, db, signals, queue, events,
            lockW, task, ret, transitions, opCount>>

sgVars == <<nextSweep, added>>

clVars == <<cfg, ruleOrder, cache, mlCache, slot, clLog, clUuid, clCount, clCalls,
            batch>>

plVars == <<policyLog>>

spVars == <<rules, pipelines, taken, loop, bus, spTrace, subs>>

mmVars == <<registry, active, healthy, permits, mmTask, hc>>

vars == <<rlVars, rmVars, sgVars, clVars, plVars, spVars, mmVars>>

\* what the rate limiter / the report manager leave alone
otherThanRL == <<rmVars, sgVars, clVars, plVars, spVars, mmVars>>
otherThanRM == <<rlVars, sgVars, clVars, plVars, spVars, mmVars>>

Procs == {"p1", "p2"}             \* concurrent callers of the report manager

NoTask == [pc |-> "idle"]
NoRet == [op |-> "none"]

\* ReportManager::new, with_datastores, with_event_sender: nothing stored yet
RMIdle ==
    /\ now = 0
    /\ nextUuid = 1
    /\ reports = <<>>
    /\ investigations = <<>>
    /\ db = <<>>
    /\ signals = <<>>
    /\ queue = <<>>
    /\ events = <<>>
    /\ lockW = "none"
    /\ task = [p \in Procs |-> NoTask]
    /\ ret = NoRet
    /\ transitions = <<>>
    /\ opCount = 0

\* SignalProcessor::start: the cleanup loop's first tick is due at once
SgIdle ==
    /\ nextSweep = 0
    /\ added = {}

\* no call of evaluate_policy yet
PlIdle == policyLog = <<>>

Subscribers == {"s1", "s2"}       \* clients of the streaming endpoints
NoReceiver == [on |-> FALSE, dropped |-> FALSE]

\* SignalProcessor::new and start: no rule, no pipeline, the processing loop
\* waits for its first signal
SpNew ==
    /\ rules = <<>>
    /\ pipelines = <<>>
    /\ taken = 0
    /\ loop = [pc |-> "recv"]
    /\ bus = <<>>
    /\ spTrace = <<>>
    /\ subs = [s \in Subscribers |-> NoReceiver]

ModelIds == {"m1", "m2", "m3"}    \* the directories under model_path
MlCallers == {"a1", "a2", "a3"}   \* concurrent callers of the model manager

\* MlModelManager::new with n permits: no model, the active id is "default"
MmNew(n) ==
    /\ registry = <<>>
    /\ active = "default"
    /\ healthy = [m \in ModelIds |-> TRUE]
    /\ permits = n
    /\ mmTask = [c \in MlCallers |-> [pc |-> "idle"]]
    /\ hc = [pc |-> "off"]

\* the f32 n/d on the model's integer scale of 90 to 1.0 (0.1 = 9, 0.5 = 45,
\* 0.9 = 81; matches/9 and matches/5 are whole numbers)
Frac(n, d) == (90 * n) \div d

ClientSlots == {1, 2}             \* classify calls of clients in progress
Slots == ClientSlots \cup (1..batch_size)   \* ... and of a classify_batch chunk
NoSlot == [pc |-> "idle"]
NoBatch == [pc |-> "idle"]

\* the ClassifierConfig built in main
MainConfig ==
    [min_confidence_threshold |-> Frac(7, 10), enable_ml_inference |-> TRUE,
     enable_rule_based |-> TRUE, enable_signal_processing |-> TRUE,
     batch_processing |-> TRUE, cache_results |-> TRUE]

\* the labels of RuleBasedClassifier.patterns, in the order of their inserts
PatternLabels == <<"Spam", "HateSpeech", "Violence">>

\* ProductionClassifier::new with configuration c; the pattern map iterates
\* in order o
ClNew(c, o) ==
    /\ cfg = c
    /\ ruleOrder = o
    /\ cache = <<>>
    /\ mlCache = <<>>
    /\ slot = [s \in Slots |-> NoSlot]
    /\ clLog = <<>>
    /\ clUuid = 1
    /\ clCount = 0
    /\ clCalls = [lang |-> 0, ml |-> 0]
    /\ batch = NoBatch

(* ========================= rate limiter ================================ *)

NoExpiry == -1

\* Lua tostring(now_ms): the decimal text of the integer
tostring(n) == ToString(n)

\* Redis drops a key whose PEXPIRE deadline has passed before a script reads it
LiveSet(k, t) ==
    IF expireAt[k] # NoExpiry /\ expireAt[k] <= t THEN {} ELSE zset[k]

\* ZREMRANGEBYSCORE key 0 min_ms
ZRemRangeByScore(s, lo, hi) == {e \in s : ~(lo <= e.score /\ e.score <= hi)}

\* ZADD key score member: a member already present only has its score updated
ZAdd(s, score, member) ==
    {e \in s : e.member # member} \cup {[member |-> member, score |-> score]}

\* LUA_SLIDING_WINDOW on the set s: <<reply, set after the script, PEXPIRE issued>>
LuaSlidingWindow(s, now_ms, window_ms, limit) ==
    LET min_ms == now_ms - window_ms
        pruned == ZRemRangeByScore(s, 0, min_ms)
        count  == Cardinality(pruned)
    IN  IF count >= limit
        THEN [reply |-> <<0, count>>, set |-> pruned, pexpire |-> FALSE]
        ELSE [reply |-> <<1, count + 1>>,
              set |-> ZAdd(pruned, now_ms, tostring(now_ms)),
              pexpire |-> TRUE]

\* the effect of one script run on the counter store
StoreAfter(k, t) ==
    LET r == LuaSlidingWindow(LiveSet(k, rlClock), t, rlWindow, rlLimit)
        oldExp == IF expireAt[k] # NoExpiry /\ expireAt[k] <= rlClock
                  THEN NoExpiry ELSE expireAt[k]
    IN  [reply |-> r.reply,
         zset |-> [zset EXCEPT ![k] = r.set],
         expireAt |-> [expireAt EXCEPT ![k] =
                          IF r.pexpire THEN rlClock + rlWindow
                          ELSE IF r.set = {} THEN NoExpiry ELSE oldExp]]

\* check_allow's value: Ok(res.0 == 1), or Err when pool.get / invoke_async fail
Err == [ok |-> FALSE]
Ok(v) == [ok |-> TRUE, val |-> v]
CheckAllowResult(reply) == Ok(reply[1] = 1)

\* a fail-closed variant of the unwrap: unwrap_or(false)
UnwrapOrFalse(res) == IF res.ok THEN res.val ELSE FALSE

\* Result::unwrap_or(true) in RateLimitService::call
UnwrapOrTrue(res) == IF res.ok THEN res.val ELSE TRUE

\* RateLimitService::call after check_allow returned res: the HTTP answer
Answer(k, t, store, res) ==
    LET allowed == UnwrapOrTrue(res)
    IN  [key |-> k, t |-> t, store |-> store,
         status |-> IF allowed THEN 200 ELSE 429,
         inner |-> allowed]

InFlight == Cardinality({i \in Insts : rlPc[i] # "idle"})

RLInit ==
    /\ rlLimit \in 1..MaxLimit
    /\ rlWindow \in 1..MaxWindow
    /\ rlClock = 0
    /\ zset = [k \in Keys |-> {}]
    /\ expireAt = [k \in Keys |-> NoExpiry]
    /\ rlPc = [i \in Insts |-> "idle"]
    /\ rlKey = [i \in Insts |-> "k1"]
    /\ rlNow = [i \in Insts |-> 0]
    /\ rlLog = <<>>
    /\ RMIdle
    /\ SgIdle
    /\ PlIdle /\ SpNew /\ MmNew(max_concurrent_inferences)
    /\ ClNew(MainConfig, PatternLabels)

\* time passes
RLTick ==
    /\ rlClock < MaxMs
    /\ rlClock' = rlClock + 1
    /\ UNCHANGED <<rlLimit, rlWindow, zset, expireAt, rlPc, rlKey, rlNow, rlLog>>
    /\ UNCHANGED otherThanRL

\* call / check_allow: pool.get() succeeds, now = millis() is read
RLCall(i, k) ==
    /\ rlPc[i] = "idle"
    /\ Len(rlLog) + InFlight < MaxReq
    /\ rlPc' = [rlPc EXCEPT ![i] = "invoke"]
    /\ rlKey' = [rlKey EXCEPT ![i] = k]
    /\ rlNow' = [rlNow EXCEPT ![i] = rlClock]
    /\ UNCHANGED <<rlLimit, rlWindow, rlClock, zset, expireAt, rlLog>>
    /\ UNCHANGED otherThanRL

\* call / check_allow: pool.get() fails, the `?` returns Err
RLPoolError(i, k) ==
    /\ rlPc[i] = "idle"
    /\ Len(rlLog) + InFlight < MaxReq
    /\ rlLog' = Append(rlLog, Answer(k, rlClock, "pool_err", Err))
    /\ UNCHANGED <<rlLimit, rlWindow, rlClock, zset, expireAt, rlPc, rlKey, rlNow>>
    /\ UNCHANGED otherThanRL

\* the script runs atomically on the store and its reply reaches check_allow
RLInvoke(i) ==
    /\ rlPc[i] = "invoke"
    /\ LET s == StoreAfter(rlKey[i], rlNow[i])
       IN  /\ zset' = s.zset
           /\ expireAt' = s.expireAt
           /\ rlLog' = Append(rlLog,
                  Answer(rlKey[i], rlNow[i],
                         IF s.reply[1] = 1 THEN "allowed" ELSE "denied",
                         CheckAllowResult(s.reply)))
    /\ rlPc' = [rlPc EXCEPT ![i] = "idle"]
    /\ rlKey' = [rlKey EXCEPT ![i] = "k1"]
    /\ rlNow' = [rlNow EXCEPT ![i] = 0]
    /\ UNCHANGED <<rlLimit, rlWindow, rlClock>>
    /\ UNCHANGED otherThanRL

\* invoke_async fails: the script did not run, or ran and its reply was lost
RLScriptError(i, ran) ==
    /\ rlPc[i] = "invoke"
    /\ LET s == StoreAfter(rlKey[i], rlNow[i])
       IN  /\ zset' = IF ran THEN s.zset ELSE zset
           /\ expireAt' = IF ran THEN s.expireAt ELSE expireAt
    /\ rlLog' = Append(rlLog, Answer(rlKey[i], rlNow[i], "script_err", Err))
    /\ rlPc' = [rlPc EXCEPT ![i] = "idle"]
    /\ rlKey' = [rlKey EXCEPT ![i] = "k1"]
    /\ rlNow' = [rlNow EXCEPT ![i] = 0]
    /\ UNCHANGED <<rlLimit, rlWindow, rlClock>>
    /\ UNCHANGED otherThanRL

RLNext ==
    \/ RLTick
    \/ \E i \in Insts, k \in Keys : RLCall(i, k)
    \/ \E i \in Insts, k \in Keys : RLPoolError(i, k)
    \/ \E i \in Insts : RLInvoke(i)
    \/ \E i \in Insts, ran \in BOOLEAN : RLScriptError(i, ran)

SpecRL == RLInit /\ [][RLNext]_vars

(* ========================= report manager ============================== *)

Users == {1, 2}                   \* Uuids of reporters and targets
Specialists == {9}                \* Uuids of specialists / investigators
UnknownId == 99                   \* a Uuid that new_v4() never returned
NoUuid == 0                       \* Option<Uuid>::None
NoTime == -1                      \* Option<DateTime>::None

\* ReportStatus
Statuses == {"Pending", "UnderInvestigation", "Escalated", "Resolved",
             "Dismissed", "RequiresMoreInfo"}
Terminal == {"Resolved", "Dismissed"}

\* ReportType (unit variants and one Custom)
ReportTypes == {"HateSpeech", "Harassment", "Violence", "Spam", "Misinformation",
                "Copyright", "Nsfw", "ChildSafety", "Impersonation", "Bot",
                "Troll", "Threats", "ReportAbuse", "SpamReports",
                "FalseReporting", "Custom"}

\* the inputs the callers draw from
ReqTypes == {"ChildSafety", "Spam"}
Reasons == {<<>>, <<" ">>, <<" ", "s">>}
EvidenceLists == {<<>>, <<"e1">>}
ValidRequests ==
    {[reporter_id |-> u, target_id |-> 3 - u, report_type |-> ty,
      reason |-> <<" ", "s">>, evidence |-> <<"e1">>] : u \in Users, ty \in ReqTypes}
InvalidRequests ==
    {[reporter_id |-> 1, target_id |-> 2, report_type |-> "Spam",
      reason |-> r, evidence |-> <<"e1">>] : r \in Reasons \ {<<" ", "s">>}}
    \cup {[reporter_id |-> 1, target_id |-> 2, report_type |-> "Spam",
            reason |-> <<" ", "s">>, evidence |-> <<>>]}
Requests == ValidRequests \cup InvalidRequests

\* str::trim
RECURSIVE TrimStart(_)
TrimStart(s) == IF s # <<>> /\ Head(s) = " " THEN TrimStart(Tail(s)) ELSE s
RECURSIVE TrimEnd(_)
TrimEnd(s) ==
    IF s # <<>> /\ s[Len(s)] = " " THEN TrimEnd(SubSeq(s, 1, Len(s) - 1)) ELSE s
Trim(s) == TrimEnd(TrimStart(s))

\* Uuid::to_string / json!(uuid): the text of the Uuid
UuidText(u) == ToString(u)

\* a validation that looks at the evidence only
ValidateEvidenceOnly(req) ==
    IF req.evidence = <<>> THEN "Report must include evidence" ELSE "Ok"

\* validate_report
ValidateReport(req) ==
    IF Trim(req.reason) = <<>> THEN "Report reason cannot be empty"
    ELSE IF req.evidence = <<>> THEN "Report must include evidence"
    ELSE "Ok"

\* check_rate_limits
CheckRateLimits(reporter) ==
    LET cutoff == now - Day
        user_reports == Cardinality({id \in DOMAIN reports :
                            /\ reports[id].reporter_id = reporter
                            /\ reports[id].created_at > cutoff})
    IN  IF user_reports >= max_reports_per_user
        THEN "Rate limit exceeded for reports" ELSE "Ok"

\* calculate_priority
CalculatePriority(report_type) ==
    CASE report_type = "ChildSafety" -> "Critical"
      [] report_type \in {"Violence", "Threats"} -> "Urgent"
      [] report_type \in {"HateSpeech", "Harassment"} -> "High"
      [] report_type \in {"Spam", "Misinformation"} -> "Normal"
      [] OTHER -> "Low"

\* a severity mapping that treats Urgent like High
MapUrgentToHigh(priority) ==
    CASE priority = "Low" -> "Low"
      [] priority = "Normal" -> "Medium"
      [] priority \in {"High", "Urgent"} -> "High"
      [] priority = "Critical" -> "Critical"

\* map_priority_to_severity
MapPriorityToSeverity(priority) ==
    CASE priority = "Low" -> "Low"
      [] priority = "Normal" -> "Medium"
      [] priority = "High" -> "High"
      [] priority \in {"Critical", "Urgent"} -> "Critical"

\* the UserReport built by create_report
NewReport(id, req) ==
    [id |-> id, reporter_id |-> req.reporter_id, target_id |-> req.target_id,
     report_type |-> req.report_type, reason |-> req.reason,
     evidence |-> req.evidence, status |-> "Pending",
     priority |-> CalculatePriority(req.report_type),
     assigned_specialist |-> NoUuid,
     created_at |-> now, updated_at |-> now, resolved_at |-> NoTime]

\* a derived signal that names the reporter as its subject
SignalAboutReporter(id, report) ==
    [id |-> id, signal_type |-> "UserReport", source |-> "user_report",
     user_id |-> UuidText(report.reporter_id),
     severity |-> MapPriorityToSeverity(report.priority),
     confidence |-> 80,
     metadata |-> [report_id |-> UuidText(report.id),
                   report_type |-> report.report_type,
                   reporter_id |-> UuidText(report.reporter_id)],
     timestamp |-> now, expires_at |-> now + 30 * Day]

\* the Signal built by generate_report_signals (confidence 0.8 as percent)
ReportSignal(id, report) ==
    [id |-> id, signal_type |-> "UserReport", source |-> "user_report",
     user_id |-> UuidText(report.target_id),
     severity |-> MapPriorityToSeverity(report.priority),
     confidence |-> 80,
     metadata |-> [report_id |-> UuidText(report.id),
                   report_type |-> report.report_type,
                   reporter_id |-> UuidText(report.reporter_id)],
     timestamp |-> now, expires_at |-> now + 30 * Day]

\* Datastores::insert_user_report: INSERT ... ON CONFLICT (id) DO NOTHING
InsertUserReport(report) ==
    IF report.id \in DOMAIN db THEN db
    ELSE db @@ (report.id :>
            [status |-> report.status, priority |-> report.priority,
             assigned_specialist |-> report.assigned_specialist,
             created_at |-> report.created_at, updated_at |-> report.updated_at,
             resolved_at |-> report.resolved_at])

\* Datastores::update_user_report_status: UPDATE ... WHERE id=$1
UpdateUserReportStatus(id, status) ==
    IF id \notin DOMAIN db THEN db
    ELSE [db EXCEPT ![id] =
            [@ EXCEPT !.status = status, !.updated_at = now,
                      !.resolved_at = IF status \in Terminal THEN now ELSE @]]

\* the JSON events of event_tx
EvCreated(r) == [type |-> "report.created", report_id |-> r.id, status |-> r.status]
\* an event built from the report before the new status is written
EvStatusBefore(id, st) ==
    [type |-> "report.status_updated", report_id |-> id,
     status |-> reports[id].status]
EvStatus(id, st) == [type |-> "report.status_updated", report_id |-> id, status |-> st]
EvInvStarted(inv) ==
    [type |-> "investigation.started", report_id |-> inv.report_id, status |-> "-"]

\* Uuid::new_v4() for a signal / an investigation: never returned before
SignalUuid == 100 + Len(queue) + 1
InvestigationUuid == 200 + Cardinality(DOMAIN investigations) + 1

Idle(p) == task[p].pc = "idle"
CanStart == opCount < MaxOps
KnownIds == DOMAIN reports \cup {UnknownId}
\* the status asked for: any for a stored report, one for an id never stored
StatusArgs(id) == IF id \in DOMAIN reports THEN Statuses ELSE {"Resolved"}

QueueCap == 1000                  \* mpsc::channel(1000) of SignalProcessor::new

\* the report `id` after update_report_status / assign_specialist wrote it
WithStatus(r, st) ==
    [r EXCEPT !.status = st, !.updated_at = now,
              !.resolved_at = IF st \in Terminal THEN now ELSE @]

\* history: one entry per write that changed the status of a stored report
Moved(id, st) ==
    IF id \in DOMAIN reports /\ reports[id].status # st
    THEN Append(transitions,
                [report_id |-> id, from |-> reports[id].status, to |-> st])
    ELSE transitions

\* a rate limiter that no request has reached
RLUnused ==
    /\ rlLimit = 1 /\ rlWindow = 1 /\ rlClock = 0
    /\ zset = [k \in Keys |-> {}]
    /\ expireAt = [k \in Keys |-> NoExpiry]
    /\ rlPc = [i \in Insts |-> "idle"]
    /\ rlKey = [i \in Insts |-> "k1"]
    /\ rlNow = [i \in Insts |-> 0]
    /\ rlLog = <<>>

RMInit ==
    /\ RMIdle
    /\ SgIdle
    /\ PlIdle /\ SpNew /\ MmNew(max_concurrent_inferences)
    /\ ClNew(MainConfig, PatternLabels)
    /\ RLUnused

\* time passes
Tick ==
    /\ now < MaxTime
    /\ now' = now + 1
    /\ UNCHANGED <<nextUuid, reports, investigations, db, signals, queue, events,
                   lockW, task, ret, transitions, opCount>>
    /\ UNCHANGED otherThanRM

\* create_report: validate_report returns Err, the `?` returns it
CreateInvalid(p, req) ==
    /\ Idle(p) /\ CanStart
    /\ ValidateReport(req) # "Ok"
    /\ ret' = [p |-> p, op |-> "create_report", res |-> "Err",
                err |-> ValidateReport(req), req |-> req]
    /\ opCount' = opCount + 1
    /\ UNCHANGED <<now, nextUuid, reports, investigations, db, signals, queue,
                   events, lockW, task, transitions>>
    /\ UNCHANGED otherThanRM

\* create_report: check_rate_limits (read guard on reports) returns Err
CreateRateLimited(p, req) ==
    /\ Idle(p) /\ CanStart /\ lockW = "none"
    /\ ValidateReport(req) = "Ok"
    /\ CheckRateLimits(req.reporter_id) # "Ok"
    /\ ret' = [p |-> p, op |-> "create_report", res |-> "Err",
                err |-> CheckRateLimits(req.reporter_id),
                req |-> req]
    /\ opCount' = opCount + 1
    /\ UNCHANGED <<now, nextUuid, reports, investigations, db, signals, queue,
                   events, lockW, task, transitions>>
    /\ UNCHANGED otherThanRM

\* create_report: both checks pass and the UserReport is built
CreateBegin(p, req) ==
    /\ Idle(p) /\ CanStart /\ lockW = "none"
    /\ ValidateReport(req) = "Ok"
    /\ CheckRateLimits(req.reporter_id) = "Ok"
    /\ task' = [task EXCEPT ![p] = [pc |-> "c_insert", op |-> "create_report",
                                    req |-> req, rep |-> NewReport(nextUuid, req)]]
    /\ nextUuid' = nextUuid + 1
    /\ ret' = NoRet
    /\ opCount' = opCount + 1
    /\ UNCHANGED <<now, reports, investigations, db, signals, queue, events,
                   lockW, transitions>>
    /\ UNCHANGED otherThanRM

\* create_report: self.reports.write().await.insert(..)
CreateInsert(p) ==
    /\ task[p].pc = "c_insert" /\ lockW = "none"
    /\ reports' = reports @@ (task[p].rep.id :> task[p].rep)
    /\ task' = [task EXCEPT ![p].pc = "c_persist"]
    /\ UNCHANGED <<now, nextUuid, investigations, db, signals, queue, events,
                   lockW, ret, transitions, opCount>>
    /\ UNCHANGED otherThanRM

\* create_report: ds.insert_user_report(..).await.ok(), the error is dropped
CreatePersist(p, fail) ==
    /\ task[p].pc = "c_persist"
    /\ db' = IF fail THEN db ELSE InsertUserReport(task[p].rep)
    /\ task' = [task EXCEPT ![p].pc = "c_signal"]
    /\ UNCHANGED <<now, nextUuid, reports, investigations, signals, queue, events,
                   lockW, ret, transitions, opCount>>
    /\ UNCHANGED otherThanRM

\* create_report: generate_report_signals -> SignalProcessor::add_signal
CreateSignal(p) ==
    /\ task[p].pc = "c_signal"
    /\ Len(queue) < QueueCap
    /\ signals' = signals @@ (SignalUuid :> ReportSignal(SignalUuid, task[p].rep))
    /\ queue' = Append(queue, SignalUuid)
    /\ task' = [task EXCEPT ![p].pc = "c_emit"]
    /\ UNCHANGED <<now, nextUuid, reports, investigations, db, events, lockW, ret,
                   transitions, opCount>>
    /\ UNCHANGED otherThanRM

\* create_report: auto_assign_specialist (empty), report.created, Ok(user_report)
CreateFinish(p) ==
    /\ task[p].pc = "c_emit"
    /\ events' = Append(events, EvCreated(task[p].rep))
    /\ ret' = [p |-> p, op |-> "create_report", res |-> "Ok",
                req |-> task[p].req, rep |-> task[p].rep]
    /\ task' = [task EXCEPT ![p] = NoTask]
    /\ UNCHANGED <<now, nextUuid, reports, investigations, db, signals, queue,
                   lockW, transitions, opCount>>
    /\ UNCHANGED otherThanRM

\* update_report_status up to its await: the write guard is taken, the report
\* (if found) is written and report.status_updated is sent
UpdateInMemory(p, id, st) ==
    /\ lockW = "none"
    /\ lockW' = p
    /\ reports' = IF id \in DOMAIN reports
                  THEN [reports EXCEPT ![id] = WithStatus(@, st)] ELSE reports
    /\ events' = IF id \in DOMAIN reports
                 THEN Append(events, EvStatus(id, st)) ELSE events
    /\ transitions' = Moved(id, st)

\* update_report_status called by a client
UpdateReportStatus(p, id, st) ==
    /\ Idle(p) /\ CanStart
    /\ UpdateInMemory(p, id, st)
    /\ task' = [task EXCEPT ![p] = [pc |-> "u_persist",
                                    op |-> "update_report_status", id |-> id,
                                    status |-> st, found |-> id \in DOMAIN reports]]
    /\ ret' = NoRet
    /\ opCount' = opCount + 1
    /\ UNCHANGED <<now, nextUuid, investigations, db, signals, queue>>
    /\ UNCHANGED otherThanRM

\* update_report_status: ds.update_user_report_status(..).await.ok(), Ok(()),
\* the write guard is dropped on return
UpdatePersist(p, fail) ==
    /\ task[p].pc = "u_persist"
    /\ db' = IF fail THEN db ELSE UpdateUserReportStatus(task[p].id, task[p].status)
    /\ lockW' = "none"
    /\ IF task[p].op = "update_report_status"
       THEN /\ ret' = [p |-> p, op |-> "update_report_status",
                        res |-> "Ok", id |-> task[p].id,
                        status |-> task[p].status,
                        found |-> task[p].found, stored |-> ~fail]
            /\ task' = [task EXCEPT ![p] = NoTask]
       ELSE /\ task' = [task EXCEPT ![p].pc = "i_emit"]
            /\ ret' = ret
    /\ UNCHANGED <<now, nextUuid, reports, investigations, signals, queue, events,
                   transitions, opCount>>
    /\ UNCHANGED otherThanRM

\* assign_specialist: no await while the write guard is held
AssignSpecialist(p, id, sid) ==
    /\ Idle(p) /\ CanStart /\ lockW = "none"
    /\ reports' = IF id \in DOMAIN reports
                  THEN [reports EXCEPT ![id] =
                           [@ EXCEPT !.assigned_specialist = sid,
                                     !.status = "UnderInvestigation",
                                     !.updated_at = now]]
                  ELSE reports
    /\ transitions' = Moved(id, "UnderInvestigation")
    /\ ret' = [p |-> p, op |-> "assign_specialist", res |-> "Ok",
                id |-> id, found |-> id \in DOMAIN reports]
    /\ opCount' = opCount + 1
    /\ UNCHANGED <<now, nextUuid, investigations, db, signals, queue, events,
                   lockW, task>>
    /\ UNCHANGED otherThanRM

\* the ReportInvestigation built by start_investigation
NewInvestigation(id, report_id, investigator_id) ==
    [id |-> id, report_id |-> report_id, investigator_id |-> investigator_id,
     status |-> "InProgress", findings |-> <<>>, actions_taken |-> <<>>,
     notes |-> <<>>, started_at |-> now, completed_at |-> NoTime,
     time_spent_minutes |-> 0]

\* start_investigation: the investigation is built and inserted
StartInvestigation(p, id, investigator_id) ==
    /\ Idle(p) /\ CanStart
    /\ investigations' = investigations @@
           (InvestigationUuid :> NewInvestigation(InvestigationUuid, id, investigator_id))
    /\ task' = [task EXCEPT ![p] = [pc |-> "i_update",
                                    op |-> "start_investigation", id |-> id,
                                    status |-> "UnderInvestigation",
                                    found |-> FALSE,
                                    inv |-> NewInvestigation(InvestigationUuid, id,
                                                             investigator_id)]]
    /\ ret' = NoRet
    /\ opCount' = opCount + 1
    /\ UNCHANGED <<now, nextUuid, reports, db, signals, queue, events, lockW,
                   transitions>>
    /\ UNCHANGED otherThanRM

\* start_investigation: self.update_report_status(report_id, UnderInvestigation)
InvestigationUpdate(p) ==
    /\ task[p].pc = "i_update"
    /\ UpdateInMemory(p, task[p].id, task[p].status)
    /\ task' = [task EXCEPT ![p].pc = "u_persist",
                            ![p].found = task[p].id \in DOMAIN reports]
    /\ UNCHANGED <<now, nextUuid, investigations, db, signals, queue, ret, opCount>>
    /\ UNCHANGED otherThanRM

\* start_investigation: investigation.started is sent, Ok(investigation)
InvestigationEmit(p) ==
    /\ task[p].pc = "i_emit"
    /\ events' = Append(events, EvInvStarted(task[p].inv))
    /\ ret' = [p |-> p, op |-> "start_investigation", res |-> "Ok",
                id |-> task[p].id, found |-> task[p].found,
                inv |-> task[p].inv]
    /\ task' = [task EXCEPT ![p] = NoTask]
    /\ UNCHANGED <<now, nextUuid, reports, investigations, db, signals, queue,
                   lockW, transitions, opCount>>
    /\ UNCHANGED otherThanRM

Next ==
    \/ Tick
    \/ \E p \in Procs, req \in Requests : CreateInvalid(p, req)
    \/ \E p \in Procs, req \in Requests : CreateRateLimited(p, req)
    \/ \E p \in Procs, req \in Requests : CreateBegin(p, req)
    \/ \E p \in Procs : CreateInsert(p)
    \/ \E p \in Procs, fail \in BOOLEAN : CreatePersist(p, fail)
    \/ \E p \in Procs : CreateSignal(p)
    \/ \E p \in Procs : CreateFinish(p)
    \/ \E p \in Procs, id \in KnownIds : \E st \in StatusArgs(id) :
           UpdateReportStatus(p, id, st)
    \/ \E p \in Procs, fail \in BOOLEAN : UpdatePersist(p, fail)
    \/ \E p \in Procs, id \in KnownIds, sid \in Specialists : AssignSpecialist(p, id, sid)
    \/ \E p \in Procs, id \in KnownIds, sid \in Specialists : StartInvestigation(p, id, sid)
    \/ \E p \in Procs : InvestigationUpdate(p)
    \/ \E p \in Procs : InvestigationEmit(p)

Spec == RMInit /\ [][Next]_vars

\* create_report called by one client with a valid request of every ReportType
TypeRequests ==
    {[reporter_id |-> 1, target_id |-> 2, report_type |-> ty,
      reason |-> <<" ", "s">>, evidence |-> <<"e1">>] : ty \in ReportTypes}

NextTypes ==
    \/ Tick
    \/ \E req \in TypeRequests : CreateRateLimited("p1", req)
    \/ \E req \in TypeRequests : CreateBegin("p1", req)
    \/ CreateInsert("p1")
    \/ CreatePersist("p1", FALSE)
    \/ CreateSignal("p1")
    \/ CreateFinish("p1")

SpecTypes == RMInit /\ [][NextTypes]_vars

\* the requests that create the reports whose status is then updated
UpdateRequests ==
    {req \in ValidRequests : req.report_type = "Spam" /\ req.reporter_id = 1}

\* reports are created and their status is updated by concurrent callers of
\* update_report_status
NextUpdates ==
    \/ Tick
    \/ \E req \in UpdateRequests : CreateRateLimited("p1", req)
    \/ \E req \in UpdateRequests : CreateBegin("p1", req)
    \/ CreateInsert("p1")
    \/ CreatePersist("p1", FALSE)
    \/ CreateSignal("p1")
    \/ CreateFinish("p1")
    \/ \E p \in Procs, id \in KnownIds : \E st \in StatusArgs(id) :
           UpdateReportStatus(p, id, st)
    \/ \E p \in Procs, fail \in BOOLEAN : UpdatePersist(p, fail)

SpecUpdates == RMInit /\ [][NextUpdates]_vars

(* =========================== signal store ============================== *)

\* chrono::Duration::hours(12) and hours(24) of process_content_signals, in
\* ticks of twelve hours
Ttl12h == 1
Ttl24h == 2

\* the time-to-live of the signals built by the callers of add_signal
TTLs == {Ttl12h, Ttl24h}

\* Signal.expires_at of a signal built now: None, or now + a time-to-live
Expiries == {NoTime} \cup {now + ttl : ttl \in TTLs}

\* a Signal handed to add_signal
ClientSignal(ty, e) ==
    [id |-> SignalUuid, signal_type |-> ty, source |-> "ml_classifier",
     user_id |-> "u1", severity |-> "Medium", confidence |-> 90,
     metadata |-> <<>>, timestamp |-> now, expires_at |-> e]

\* a sweep that also keeps the signals expiring at this very instant
RetainNotBefore(sigs, t) ==
    LET keep == {sid \in DOMAIN sigs :
                    sigs[sid].expires_at = NoTime \/ sigs[sid].expires_at >= t}
    IN  [sid \in keep |-> sigs[sid]]

\* signals_guard.retain(..) of the cleanup loop
Retain(sigs, t) ==
    LET keep == {sid \in DOMAIN sigs :
                    sigs[sid].expires_at = NoTime \/ sigs[sid].expires_at > t}
    IN  [sid \in keep |-> sigs[sid]]

\* SignalProcessor::matches_filter
MatchesFilter(signal, filter) == TRUE

\* what the signal store's operations leave alone
sgFrame == <<rlVars, clVars, plVars, spVars, mmVars, nextUuid, reports, investigations, db, events, lockW, task,
             transitions, opCount>>

\* time passes; a tick of the cleanup interval that is due fires before the
\* clock moves on
SigTick ==
    /\ now < MaxSigTime
    /\ now < nextSweep
    /\ now' = now + 1
    /\ UNCHANGED <<signals, queue, ret, nextSweep, added>>
    /\ UNCHANGED sgFrame

\* SignalProcessor::add_signal
AddSignal(ty, e) ==
    /\ Cardinality(added) < MaxSignals
    /\ Len(queue) < QueueCap
    /\ signals' = (SignalUuid :> ClientSignal(ty, e)) @@ signals
    /\ queue' = Append(queue, SignalUuid)
    /\ added' = added \cup {ClientSignal(ty, e)}
    /\ UNCHANGED <<now, ret, nextSweep>>
    /\ UNCHANGED sgFrame

\* one round of the cleanup loop: interval.tick(), then retain under the
\* write guard
Sweep ==
    /\ now >= nextSweep
    /\ signals' = Retain(signals, now)
    /\ nextSweep' = nextSweep + CleanupInterval
    /\ UNCHANGED <<now, queue, ret, added>>
    /\ UNCHANGED sgFrame

\* SignalProcessor::get_signal
GetSignal(signal_id) ==
    /\ ret' = [op |-> "get_signal", at |-> now, id |-> signal_id,
                result |-> IF signal_id \in DOMAIN signals
                           THEN {signals[signal_id]} ELSE {}]
    /\ UNCHANGED <<now, signals, queue, nextSweep, added>>
    /\ UNCHANGED sgFrame

\* SignalProcessor::get_signals
GetSignals(filter) ==
    /\ ret' = [op |-> "get_signals", at |-> now, id |-> NoUuid,
                result |-> IF filter = "None"
                           THEN {signals[sid] : sid \in DOMAIN signals}
                           ELSE {signals[sid] : sid \in
                                    {x \in DOMAIN signals :
                                        MatchesFilter(signals[x], filter)}}]
    /\ UNCHANGED <<now, signals, queue, nextSweep, added>>
    /\ UNCHANGED sgFrame

SignalIds == {100 + n : n \in 1..MaxSignals}

NextSig ==
    \/ SigTick
    \/ \E ty \in {"HighConfidenceViolation", "ContentSpam"}, e \in Expiries :
           AddSignal(ty, e)
    \/ Sweep
    \/ \E signal_id \in SignalIds : GetSignal(signal_id)
    \/ \E filter \in {"None", "Some"} : GetSignals(filter)

SpecSig == RMInit /\ [][NextSig]_vars

(* ============================ classifier =============================== *)

\* RuleBasedClassifier.patterns
Patterns(label) ==
    CASE label = "Spam" ->
             {"buy now", "free $$$", "click here", "limited offer", "act now",
              "make money fast", "work from home", "earn $1000",
              "guaranteed results"}
      [] label = "HateSpeech" -> {"hate", "racist", "bigot", "supremacist", "nazi"}
      [] label = "Violence" -> {"kill", "murder", "attack", "bomb", "shoot"}

\* a text is given by the patterns that occur in it (regex.is_match)
IsMatch(pattern, text) == pattern \in text

Texts == {{}, {"buy now", "free $$$"}, {"hate", "kill"}}

\* the ClassificationRequests the callers draw from
ClassifyRequests ==
    {[content_id |-> "c1", user_id |-> "u1", text |-> t, language_hint |-> "None"] :
        t \in Texts \ {{}}}
    \cup {[content_id |-> "c2", user_id |-> "u1", text |-> {},
            language_hint |-> "es"]}

\* what InferenceModel::predict may return: a label and an f32 confidence
MlOutputs ==
    {[label |-> "Spam", confidence |-> Frac(9, 10)],
     [label |-> "Clean", confidence |-> Frac(1, 18)],
     [label |-> "Clean", confidence |-> Frac(7, 10)],
     [label |-> "Violence", confidence |-> Frac(8, 10)]}

\* the values of min_confidence_threshold tried
Thresholds == {Frac(0, 1), Frac(7, 10)}

\* the orders in which the pattern map may iterate that are tried
RuleOrders == {PatternLabels, <<"Violence", "HateSpeech", "Spam">>}

Min(a, b) == IF a < b THEN a ELSE b
Max(a, b) == IF a > b THEN a ELSE b

\* the loop of RuleBasedClassifier::classify over the labels order[i..]
RECURSIVE RuleLoop(_, _, _, _)
RuleLoop(text, order, i, best) ==
    IF i > Len(order) THEN best
    ELSE LET regex_list == Patterns(order[i])
             matches == Cardinality({r \in regex_list : IsMatch(r, text)})
             confidence == Min(Frac(matches, Cardinality(regex_list)), Frac(9, 10))
         IN  IF matches > 0 /\ confidence > best.confidence
             THEN RuleLoop(text, order, i + 1,
                           [label |-> order[i], confidence |-> confidence])
             ELSE RuleLoop(text, order, i + 1, best)

\* RuleBasedClassifier::classify: label and confidence of its result
RuleClassify(text, order) ==
    LET best == RuleLoop(text, order, 1, [label |-> "Clean", confidence |-> 0])
    IN  [label |-> best.label, confidence |-> Max(best.confidence, Frac(1, 10))]

\* LanguageDetector::is_supported / detect: every text of the model is English
SupportedLanguages == {"en", "es", "fr"}
Detect(text) == "en"

\* ProductionClassifier::detect_language
DetectLanguage(text, hint) ==
    IF hint # "None" /\ hint \in SupportedLanguages THEN hint ELSE Detect(text)

\* the rule layer's part of classify
RuleResult(text) ==
    IF cfg.enable_rule_based THEN RuleClassify(text, ruleOrder)
    ELSE [label |-> "Clean", confidence |-> Frac(1, 2)]

\* a fusion that lets the ML layer win at the threshold itself
FusionAtLeast(ml, rule) ==
    IF ml.confidence >= cfg.min_confidence_threshold THEN ml ELSE rule

\* classify: "Combine results"
Fusion(ml, rule) ==
    IF ml.confidence > cfg.min_confidence_threshold THEN ml ELSE rule

\* SignalProcessor::map_label_to_severity
MapLabelToSeverity(label) ==
    CASE label \in {"Clean", "Educational", "Creative"} -> "Low"
      [] label \in {"Spam", "LowQuality", "OffTopic"} -> "Medium"
      [] label \in {"HateSpeech", "Harassment", "Violence"} -> "High"
      [] label = "Csam" -> "Critical"
      [] OTHER -> "Medium"

\* the Signals built by process_content_signals
HighConfidenceSignal(id, req, res) ==
    [id |-> id, signal_type |-> "HighConfidenceViolation",
     source |-> "ml_classifier", content_id |-> req.content_id,
     user_id |-> req.user_id, severity |-> MapLabelToSeverity(res.label),
     confidence |-> res.confidence, metadata |-> <<>>, timestamp |-> now,
     expires_at |-> now + Ttl24h]
ContentSpamSignal(id, req, res) ==
    [id |-> id, signal_type |-> "ContentSpam", source |-> "rule_engine",
     content_id |-> req.content_id, user_id |-> req.user_id,
     severity |-> "Medium", confidence |-> res.confidence, metadata |-> <<>>,
     timestamp |-> now, expires_at |-> now + Ttl12h]

\* a derivation that also signals a confidence of exactly 0.8
ContentSignalsAtLeast(req, res) ==
    LET first == IF res.confidence >= Frac(8, 10)
                 THEN <<HighConfidenceSignal(SignalUuid, req, res)>> ELSE <<>>
        second == IF res.label = "Spam"
                  THEN <<ContentSpamSignal(SignalUuid + Len(first), req, res)>>
                  ELSE <<>>
    IN  first \o second

\* process_content_signals: the signals added for a result, in order
ContentSignals(req, res) ==
    LET first == IF res.confidence > Frac(8, 10)
                 THEN <<HighConfidenceSignal(SignalUuid, req, res)>> ELSE <<>>
        second == IF res.label = "Spam"
                  THEN <<ContentSpamSignal(SignalUuid + Len(first), req, res)>>
                  ELSE <<>>
    IN  first \o second

\* Err(..) of classify and classify_batch
Failed(e) == [ok |-> FALSE, err |-> e]

\* what the classifier's operations leave alone
clFrame == <<rlVars, sgVars, plVars, spVars, mmVars, now, nextUuid, reports, investigations, db, events,
             lockW, task, ret, transitions, opCount>>

\* HashMap::insert
Put(f, k, v) == [x \in DOMAIN f \cup {k} |-> IF x = k THEN v ELSE f[x]]

NoOutput == [label |-> "None", confidence |-> 0]

\* a cache keyed on the user instead of the content
CacheKeyUser(req) == req.user_id

\* the key of ProductionClassifier.cache
CacheKey(req) == req.content_id

\* a classify call that has its return value
Done(t, hit, out, ml, rule) ==
    [pc |-> "done", owner |-> t.owner, idx |-> t.idx, req |-> t.req,
     hit |-> hit, out |-> out, ml |-> ml, rule |-> rule]

\* classify, "Check cache first": on a hit the cached result is the return
\* value, on a miss the call goes on to the language detection
Begin(s, req, owner, idx) ==
    /\ slot[s].pc = "idle"
    /\ slot' = [slot EXCEPT ![s] =
          IF cfg.cache_results /\ CacheKey(req) \in DOMAIN cache
          THEN Done([owner |-> owner, idx |-> idx, req |-> req], TRUE,
                    Ok(cache[CacheKey(req)]), NoOutput, NoOutput)
          ELSE [pc |-> "lang", owner |-> owner, idx |-> idx, req |-> req]]

\* classify called by a client
ClientClassify(s, req) ==
    /\ clCount < MaxClassify
    /\ Begin(s, req, "client", 0)
    /\ clCount' = clCount + 1
    /\ UNCHANGED <<cfg, ruleOrder, cache, mlCache, clLog, clUuid, clCalls, batch,
                   signals, queue>>
    /\ UNCHANGED clFrame

\* classify: detect_language
ClLang(s) ==
    /\ slot[s].pc = "lang"
    /\ LET t == slot[s]
           language == DetectLanguage(t.req.text, t.req.language_hint)
       IN  slot' = [slot EXCEPT ![s] =
               [pc |-> "ml", owner |-> t.owner, idx |-> t.idx, req |-> t.req,
                language |-> language,
                detected_language |->
                    IF t.req.language_hint = "None" THEN language ELSE "None"]]
    /\ clCalls' = [clCalls EXCEPT !.lang = @ + 1]
    /\ UNCHANGED <<cfg, ruleOrder, cache, mlCache, clLog, clUuid, clCount, batch,
                   signals, queue>>
    /\ UNCHANGED clFrame

\* classify: process_with_ml (MlModelManager::classify_text with its cache),
\* the rule layer and the fusion; `out` is what the model predicts, `fail`
\* says that the active model is missing or its predict returns Err
ClMl(s, out, fail) ==
    /\ slot[s].pc = "ml"
    /\ LET t == slot[s]
           key == <<t.req.text, t.language>>
           infer == cfg.enable_ml_inference /\ key \notin DOMAIN mlCache
           ml == IF ~cfg.enable_ml_inference
                 THEN [label |-> "Clean", confidence |-> Frac(1, 2)]
                 ELSE IF infer THEN out ELSE mlCache[key]
           rule == RuleResult(t.req.text)
           final == Fusion(ml, rule)
       IN  /\ infer \/ (~fail /\ out = CHOOSE o \in MlOutputs : TRUE)
           /\ IF infer /\ fail
              THEN /\ slot' = [slot EXCEPT ![s] =
                          Done(t, FALSE, Failed("ml"), NoOutput, NoOutput)]
                   /\ mlCache' = mlCache
              ELSE /\ slot' = [slot EXCEPT ![s] =
                          [pc |-> "signals", owner |-> t.owner, idx |-> t.idx,
                           req |-> t.req, language |-> t.language,
                           detected_language |-> t.detected_language,
                           ml |-> ml, rule |-> rule,
                           label |-> final.label,
                           confidence |-> final.confidence]]
                   /\ mlCache' = IF infer THEN Put(mlCache, key, out) ELSE mlCache
           /\ clCalls' = IF infer THEN [clCalls EXCEPT !.ml = @ + 1] ELSE clCalls
    /\ UNCHANGED <<cfg, ruleOrder, cache, clLog, clUuid, clCount, batch,
                   signals, queue>>
    /\ UNCHANGED clFrame

\* classify: process_signals -> process_content_signals -> add_signal
ClSignals(s) ==
    /\ slot[s].pc = "signals"
    /\ LET t == slot[s]
           sigs == IF cfg.enable_signal_processing
                   THEN ContentSignals(t.req, [label |-> t.label,
                                               confidence |-> t.confidence])
                   ELSE <<>>
           ids == [i \in 1..Len(sigs) |-> sigs[i].id]
       IN  /\ Len(queue) + Len(sigs) <= QueueCap
           /\ signals' = [id \in DOMAIN signals \cup {ids[i] : i \in 1..Len(ids)} |->
                             IF id \in DOMAIN signals THEN signals[id]
                             ELSE sigs[CHOOSE i \in 1..Len(sigs) : sigs[i].id = id]]
           /\ queue' = queue \o ids
           /\ slot' = [slot EXCEPT ![s] =
                  [pc |-> "finish", owner |-> t.owner, idx |-> t.idx,
                   req |-> t.req, language |-> t.language,
                   detected_language |-> t.detected_language,
                   ml |-> t.ml, rule |-> t.rule, label |-> t.label,
                   confidence |-> t.confidence, signals |-> ids]]
    /\ UNCHANGED <<cfg, ruleOrder, cache, mlCache, clLog, clUuid, clCount, clCalls,
                   batch>>
    /\ UNCHANGED clFrame

\* the ClassificationResult assembled by classify
NewResult(id, t) ==
    [id |-> id, content_id |-> t.req.content_id, user_id |-> t.req.user_id,
     label |-> t.label, confidence |-> t.confidence, language |-> t.language,
     detected_language |-> t.detected_language, model_version |-> "1.0.0",
     signals |-> t.signals]

\* classify: get_model_version (`fail`: no active model), the result is
\* assembled and, with caching enabled, inserted into the cache
ClFinish(s, fail) ==
    /\ slot[s].pc = "finish"
    /\ LET t == slot[s]
           result == NewResult(clUuid, t)
       IN  IF fail
           THEN /\ slot' = [slot EXCEPT ![s] =
                       Done(t, FALSE, Failed("model_version"), t.ml, t.rule)]
                /\ UNCHANGED <<cache, clUuid>>
           ELSE /\ slot' = [slot EXCEPT ![s] =
                       Done(t, FALSE, Ok(result), t.ml, t.rule)]
                /\ cache' = IF cfg.cache_results
                            THEN Put(cache, CacheKey(t.req), result) ELSE cache
                /\ clUuid' = clUuid + 1
    /\ UNCHANGED <<cfg, ruleOrder, mlCache, clLog, clCount, clCalls, batch,
                   signals, queue>>
    /\ UNCHANGED clFrame

\* classify returns to the client that called it
ClReturn(s) ==
    /\ slot[s].pc = "done" /\ slot[s].owner = "client"
    /\ clLog' = Append(clLog, [req |-> slot[s].req, hit |-> slot[s].hit,
                               out |-> slot[s].out, ml |-> slot[s].ml,
                               rule |-> slot[s].rule])
    /\ slot' = [slot EXCEPT ![s] = NoSlot]
    /\ UNCHANGED <<cfg, ruleOrder, cache, mlCache, clUuid, clCount, clCalls, batch,
                   signals, queue>>
    /\ UNCHANGED clFrame

\* the configurations tried for single classify calls
ClConfigs ==
    {[min_confidence_threshold |-> th, enable_ml_inference |-> m,
      enable_rule_based |-> r, enable_signal_processing |-> TRUE,
      batch_processing |-> FALSE, cache_results |-> c] :
        th \in Thresholds, m \in BOOLEAN, r \in BOOLEAN, c \in BOOLEAN}

ClInit ==
    /\ RMIdle
    /\ SgIdle
    /\ PlIdle /\ SpNew /\ MmNew(max_concurrent_inferences)
    /\ RLUnused
    /\ \E c \in ClConfigs, o \in RuleOrders : ClNew(c, o)

NextCl ==
    \/ \E s \in ClientSlots, req \in ClassifyRequests : ClientClassify(s, req)
    \/ \E s \in Slots : ClLang(s)
    \/ \E s \in Slots, out \in MlOutputs, fail \in BOOLEAN : ClMl(s, out, fail)
    \/ \E s \in Slots : ClSignals(s)
    \/ \E s \in Slots, fail \in BOOLEAN : ClFinish(s, fail)
    \/ \E s \in Slots : ClReturn(s)

SpecCl == ClInit /\ [][NextCl]_vars

\* ---- classify_batch ----

\* the request lists handed to classify_batch
RECURSIVE ListsOf(_, _)
ListsOf(S, n) ==
    IF n = 0 THEN {<<>>}
    ELSE LET shorter == ListsOf(S, n - 1)
         IN  shorter \cup {Append(l, x) : l \in {m \in shorter : Len(m) = n - 1},
                                          x \in S}
BatchLists == ListsOf(ClassifyRequests, MaxBatch)

\* requests.chunks(batch_size), or one request at a time without batch_processing
ChunkLen == IF cfg.batch_processing THEN batch_size ELSE 1
ChunkEnd == Min(batch.next + ChunkLen - 1, Len(batch.reqs))

\* the classify calls of the chunk in progress
BatchSlots == {s \in Slots : slot[s].pc # "idle" /\ slot[s].owner = "batch"}

\* a gathering of the chunk's return values from the last request to the first
CollectReversed(lo, hi) ==
    [k \in 1..(hi - lo + 1) |->
        slot[CHOOSE s \in BatchSlots : slot[s].idx = hi - k + 1].out]

\* join_all(futures).await: the return values in the order of the requests
Collect(lo, hi) ==
    [k \in 1..(hi - lo + 1) |->
        slot[CHOOSE s \in BatchSlots : slot[s].idx = lo + k - 1].out]

\* classify_batch is called
BatchCall(reqs) ==
    /\ batch.pc = "idle"
    /\ batch' = [pc |-> "run", reqs |-> reqs, results |-> <<>>, next |-> 1]
    /\ UNCHANGED <<cfg, ruleOrder, cache, mlCache, slot, clLog, clUuid, clCount,
                   clCalls, signals, queue>>
    /\ UNCHANGED clFrame

\* the classify call of the chunk's next request is polled for the first
\* time; the chunk's calls start in the order of the requests
BatchSpawn(s) ==
    /\ batch.pc = "run"
    /\ LET i == batch.next + Cardinality(BatchSlots)
       IN  /\ i <= ChunkEnd
           /\ Begin(s, batch.reqs[i], "batch", i)
    /\ UNCHANGED <<cfg, ruleOrder, cache, mlCache, clLog, clUuid, clCount, clCalls,
                   batch, signals, queue>>
    /\ UNCHANGED clFrame

\* every call of the chunk has returned: `results.push(result?)` for each
BatchJoin ==
    /\ batch.pc = "run"
    /\ batch.next <= Len(batch.reqs)
    /\ Cardinality(BatchSlots) = ChunkEnd - batch.next + 1
    /\ \A s \in BatchSlots : slot[s].pc = "done"
    /\ LET outs == Collect(batch.next, ChunkEnd)
           bad == {k \in DOMAIN outs : ~outs[k].ok}
       IN  batch' = IF bad # {}
                    THEN [pc |-> "returned", reqs |-> batch.reqs,
                          out |-> outs[CHOOSE k \in bad : \A j \in bad : k <= j]]
                    ELSE [batch EXCEPT
                             !.results = @ \o [k \in DOMAIN outs |-> outs[k].val],
                             !.next = ChunkEnd + 1]
    /\ slot' = [s \in Slots |-> IF s \in BatchSlots THEN NoSlot ELSE slot[s]]
    /\ UNCHANGED <<cfg, ruleOrder, cache, mlCache, clLog, clUuid, clCount, clCalls,
                   signals, queue>>
    /\ UNCHANGED clFrame

\* classify_batch: Ok(results)
BatchReturn ==
    /\ batch.pc = "run"
    /\ batch.next > Len(batch.reqs)
    /\ batch' = [pc |-> "returned", reqs |-> batch.reqs, out |-> Ok(batch.results)]
    /\ UNCHANGED <<cfg, ruleOrder, cache, mlCache, slot, clLog, clUuid, clCount,
                   clCalls, signals, queue>>
    /\ UNCHANGED clFrame

\* the configurations tried for classify_batch
BatchConfigs ==
    {[min_confidence_threshold |-> Frac(7, 10), enable_ml_inference |-> TRUE,
      enable_rule_based |-> TRUE, enable_signal_processing |-> TRUE,
      batch_processing |-> b, cache_results |-> c] :
        b \in BOOLEAN, c \in BOOLEAN}

BatchInit ==
    /\ RMIdle
    /\ SgIdle
    /\ PlIdle /\ SpNew /\ MmNew(max_concurrent_inferences)
    /\ RLUnused
    /\ \E c \in BatchConfigs : ClNew(c, PatternLabels)

NextBatch ==
    \/ \E reqs \in BatchLists : BatchCall(reqs)
    \/ \E s \in Slots : BatchSpawn(s)
    \/ \E s \in Slots : ClLang(s)
    \/ \E s \in Slots, out \in MlOutputs, fail \in BOOLEAN : ClMl(s, out, fail)
    \/ \E s \in Slots : ClSignals(s)
    \/ \E s \in Slots, fail \in BOOLEAN : ClFinish(s, fail)
    \/ BatchJoin
    \/ BatchReturn

SpecBatch == BatchInit /\ [][NextBatch]_vars

(* ============================== policy ================================= *)

\* the scores evaluate_policy is called with
Scores == 0..MaxScore

\* a policy whose thresholds are reached by the score that equals them
EvaluatePolicyAtLeast(score) ==
    IF score >= Frac(9, 10) THEN "Suspend"
    ELSE IF score >= Frac(7, 10) THEN "Mute"
    ELSE IF score >= Frac(5, 10) THEN "Warn"
    ELSE "None"

\* rules::evaluate_policy: RuleDecision.action
EvaluatePolicy(score) ==
    IF score > Frac(9, 10) THEN "Suspend"
    ELSE IF score > Frac(7, 10) THEN "Mute"
    ELSE IF score > Frac(5, 10) THEN "Warn"
    ELSE "None"

\* what an evaluation leaves alone
plFrame == <<rlVars, rmVars, sgVars, clVars, spVars, mmVars>>

\* evaluate_policy is called with a score
Evaluate(score) ==
    /\ Len(policyLog) < MaxEvals
    /\ policyLog' = Append(policyLog,
                           [score |-> score, action |-> EvaluatePolicy(score)])
    /\ UNCHANGED plFrame

NextPolicy == \E score \in Scores : Evaluate(score)

SpecPolicy == RMInit /\ [][NextPolicy]_vars

(* ========================= signal processing =========================== *)

\* a serde_json::Value of a SignalCondition: a string or a number
Str(x) == [kind |-> "str", str |-> x, num |-> 0]
Num(n) == [kind |-> "num", str |-> "", num |-> n]

Condition(field, operator, value, logical_operator) ==
    [field |-> field, operator |-> operator, value |-> value,
     logical_operator |-> logical_operator]

\* the condition lists of the rules that are added
ConditionLists ==
    {<<>>,
     <<Condition("severity", "Equals", Str("Medium"), "And")>>,
     <<Condition("severity", "NotEquals", Str("High"), "And")>>,
     <<Condition("confidence", "GreaterThan", Num(Frac(1, 1)), "And")>>,
     <<Condition("severity", "Equals", Str("High"), "Or"),
       Condition("confidence", "GreaterThan", Num(Frac(1, 2)), "Or")>>}

\* the SignalRules handed to add_rule: "ra" of priority 2 with one action and
\* "rb" of priority 1 with two
SignalRules ==
    {[id |-> "ra", signal_types |-> tys, conditions |-> cs,
      actions |-> <<"FlagForReview">>, priority |-> 2, enabled |-> en] :
        tys \in {{"ContentSpam"}, {"ContentSpam", "HighConfidenceViolation"}},
        cs \in ConditionLists, en \in BOOLEAN}
    \cup
    {[id |-> "rb", signal_types |-> tys, conditions |-> cs,
      actions |-> <<"RemoveContent", "SendNotification">>, priority |-> 1,
      enabled |-> en] :
        tys \in {{"ContentSpam"}, {"ContentSpam", "HighConfidenceViolation"}},
        cs \in ConditionLists, en \in BOOLEAN}

\* the SignalPipelines handed to add_pipeline
SignalPipelines ==
    {[id |-> id, enabled |-> en, stages |-> <<"s1">>] :
        id \in {"pa", "pb"}, en \in BOOLEAN}

\* SignalProcessor::condition_matches_signal
ConditionMatchesSignal(signal, condition) ==
    CASE condition.field = "severity" ->
             signal.severity = (IF condition.value.kind = "str"
                                THEN condition.value.str ELSE "")
      [] condition.field = "confidence" ->
             IF condition.value.kind = "num"
             THEN signal.confidence >= condition.value.num
             ELSE FALSE
      [] OTHER -> FALSE

\* SignalProcessor::rule_matches_signal
RuleMatchesSignal(signal, rule) ==
    /\ signal.signal_type \in rule.signal_types
    /\ \A i \in DOMAIN rule.conditions :
           ConditionMatchesSignal(signal, rule.conditions[i])

\* SignalProcessor::apply_rules over rs[i..]
RECURSIVE ApplyRulesFrom(_, _, _)
ApplyRulesFrom(signal, rs, i) ==
    IF i > Len(rs) THEN <<>>
    ELSE (IF rs[i].enabled /\ RuleMatchesSignal(signal, rs[i])
          THEN rs[i].actions ELSE <<>>)
         \o ApplyRulesFrom(signal, rs, i + 1)

ApplyRules(signal, rs) == ApplyRulesFrom(signal, rs, 1)

\* SignalProcessor::should_process_pipeline
ShouldProcessPipeline(signal, pipeline) == TRUE

\* SignalProcessor::execute_pipeline
ExecutePipeline(pipeline, signal) ==
    [pipeline_id |-> pipeline.id, signal_id |-> signal.id,
     stage_results |-> [k \in DOMAIN pipeline.stages |->
                           [stage_id |-> pipeline.stages[k], success |-> TRUE]],
     final_decision |-> "None"]

\* a send that drops the result
BroadcastNothing(b, result) == b

\* pipeline_tx.send(pipeline_result)
Broadcast(b, result) == Append(b, result)

\* what the signal processing leaves alone
spFrame == <<rlVars, clVars, plVars, mmVars, nextUuid, reports, investigations, db,
             events, lockW, task, transitions, opCount, now, ret, nextSweep>>

\* what a call of add_signal leaves alone besides the loop's state
producerFrame == <<rlVars, clVars, plVars, mmVars, nextUuid, reports, investigations,
                  db, events, lockW, transitions, opCount, now, nextSweep>>

\* SignalProcessor::add_rule
AddRule(rule) ==
    /\ Len(rules) < MaxRules
    /\ rules' = Append(rules, rule)
    /\ UNCHANGED <<pipelines, taken, loop, bus, spTrace, signals, queue, added,
                   subs>>
    /\ UNCHANGED spFrame

\* the map's iteration order after an insert of a new key at position k
InsertAt(seq, k, x) == SubSeq(seq, 1, k - 1) \o <<x>> \o SubSeq(seq, k, Len(seq))

\* SignalProcessor::add_pipeline: an insert into the map, which replaces the
\* pipeline of the same id; it waits while the processing loop iterates over
\* the map under its read guard
AddPipeline(pipeline, k) ==
    /\ Len(pipelines) < MaxPipelines
    /\ loop.pc \notin {"pipes", "send"}
    /\ LET same == {i \in DOMAIN pipelines : pipelines[i].id = pipeline.id}
       IN  IF same # {}
           THEN /\ k = 1
                /\ pipelines' = [i \in DOMAIN pipelines |->
                                    IF i \in same THEN pipeline ELSE pipelines[i]]
           ELSE /\ k \in 1..(Len(pipelines) + 1)
                /\ pipelines' = InsertAt(pipelines, k, pipeline)
    /\ UNCHANGED <<rules, taken, loop, bus, spTrace, signals, queue, added,
                   subs>>
    /\ UNCHANGED spFrame

\* a client's add_signal with a signal that does not expire
AddClientSignal(ty) ==
    /\ AddSignal(ty, NoTime)
    /\ UNCHANGED spVars

\* the Signal that was sent to the queue under this id
Queued(id) ==
    IF id \in DOMAIN signals THEN signals[id]
    ELSE CHOOSE x \in added : x.id = id

\* the processing loop: signal_rx.recv() returns the next signal sent
LoopRecv ==
    /\ loop.pc = "recv"
    /\ taken < Len(queue)
    /\ taken' = taken + 1
    /\ loop' = [pc |-> "rules", signal |-> Queued(queue[taken + 1])]
    /\ UNCHANGED <<rules, pipelines, bus, spTrace, signals, queue, added,
                   subs>>
    /\ UNCHANGED spFrame

\* the processing loop: apply_rules under the read guard of the rules
LoopRules ==
    /\ loop.pc = "rules"
    /\ LET rule_results == ApplyRules(loop.signal, rules)
       IN  /\ loop' = [pc |-> "pipes", signal |-> loop.signal,
                       rule_results |-> rule_results, i |-> 1]
           /\ spTrace' = Append(spTrace,
                  [step |-> "rules", signal_id |-> loop.signal.id,
                   signal |-> loop.signal, rules |-> rules,
                   actions |-> rule_results])
    /\ UNCHANGED <<rules, pipelines, taken, bus, signals, queue, added,
                   subs>>
    /\ UNCHANGED spFrame

\* the processing loop: the next pipeline of the map is executed, or skipped
\* when it is disabled
LoopExec ==
    /\ loop.pc = "pipes"
    /\ loop.i <= Len(pipelines)
    /\ LET pipeline == pipelines[loop.i]
       IN  IF pipeline.enabled /\ ShouldProcessPipeline(loop.signal, pipeline)
           THEN /\ loop' = [loop EXCEPT !.pc = "send"] @@
                           [pipeline_result |->
                               ExecutePipeline(pipeline, loop.signal)]
                /\ spTrace' = Append(spTrace,
                       [step |-> "exec", signal_id |-> loop.signal.id,
                        pipeline_id |-> pipeline.id])
           ELSE /\ loop' = [loop EXCEPT !.i = @ + 1]
                /\ spTrace' = spTrace
    /\ UNCHANGED <<rules, pipelines, taken, bus, signals, queue, added,
                   subs>>
    /\ UNCHANGED spFrame

\* the receivers of a channel that are alive
Receivers(ch) == {s \in Subscribers : subs[s].on /\ subs[s].ch = ch}

\* broadcast::Sender::send: an error when no receiver is alive
SendResult(ch) == IF Receivers(ch) = {} THEN "Err" ELSE "Ok"

\* pipeline_tx.send(..).unwrap(): the task panics on an error
Unwrap(res) == IF res = "Err" THEN "panic" ELSE "go on"

\* let _ = pipeline_tx.send(..): the result of the send is dropped
LetUnderscore(res) == "go on"

\* the processing loop: the pipeline's result is sent on the bus
LoopPublish ==
    /\ loop.pc = "send"
    /\ bus' = Broadcast(bus, loop.pipeline_result)
    /\ loop' = IF LetUnderscore(SendResult("pipeline")) = "go on"
               THEN [pc |-> "pipes", signal |-> loop.signal,
                     rule_results |-> loop.rule_results, i |-> loop.i + 1]
               ELSE [pc |-> "panicked"]
    /\ UNCHANGED <<rules, pipelines, taken, spTrace, signals, queue, added,
                   subs>>
    /\ UNCHANGED spFrame

\* the processing loop: every pipeline was visited, record_signal_processed
LoopProcessed ==
    /\ loop.pc = "pipes"
    /\ loop.i > Len(pipelines)
    /\ spTrace' = Append(spTrace,
           [step |-> "processed", signal_id |-> loop.signal.id])
    /\ loop' = [pc |-> "recv"]
    /\ UNCHANGED <<rules, pipelines, taken, bus, signals, queue, added,
                   subs>>
    /\ UNCHANGED spFrame

SignalTypes == {"HighConfidenceViolation", "ContentSpam"}

\* rules are added while signals arrive and the loop evaluates them; no
\* pipeline is registered
NextRules ==
    \/ \E rule \in SignalRules : AddRule(rule)
    \/ \E ty \in SignalTypes : AddClientSignal(ty)
    \/ LoopRecv
    \/ LoopRules
    \/ LoopProcessed

SpecRules == RMInit /\ [][NextRules]_vars

\* the rules of the pipelines specification
TwoRules ==
    {r \in SignalRules : r.enabled /\ r.conditions = <<>>
                         /\ r.signal_types = {"ContentSpam"}}

\* pipelines and rules are added while signals arrive and the loop runs
NextLoop ==
    \/ \E rule \in TwoRules : AddRule(rule)
    \/ \E pipeline \in SignalPipelines, k \in 1..MaxPipelines :
           AddPipeline(pipeline, k)
    \/ \E ty \in SignalTypes : AddClientSignal(ty)
    \/ LoopRecv
    \/ LoopRules
    \/ LoopExec
    \/ LoopPublish
    \/ LoopProcessed

SpecLoop == RMInit /\ [][NextLoop]_vars

(* ============================ model manager ============================ *)

\* the sequences without repetition over a set: the orders in which the
\* map of models may iterate over the models loaded
RECURSIVE Orders(_)
Orders(S) ==
    IF S = {} THEN {<<>>}
    ELSE UNION {{<<x>> \o o : o \in Orders(S \ {x})} : x \in S}

Registries == UNION {Orders(S) : S \in SUBSET ModelIds}

\* the cache keys of classify_text: a text and a language
MlKeys == {<<t, "en">> : t \in Texts \ {{"hate", "kill"}}}

\* what the model manager leaves alone
mmFrame == <<rlVars, rmVars, sgVars, plVars, spVars, cfg, ruleOrder, cache, slot,
             clLog, clUuid, clCount, clCalls, batch>>

\* MlModelManager::initialize: the models found are loaded, the first key of
\* the map becomes the active model, the health check loop is started
Initialize(reg) ==
    /\ hc.pc = "off"
    /\ registry' = reg
    /\ active' = IF reg # <<>> THEN reg[1] ELSE active
    /\ hc' = [pc |-> "wait"]
    /\ UNCHANGED <<healthy, permits, mmTask, mlCache>>
    /\ UNCHANGED mmFrame

\* the callers that hold a permit of the inference semaphore
Holders == {c \in MlCallers : mmTask[c].pc \in {"lookup", "predict"}}

\* the calls of predict and predict_batch on a model that are in flight
Inferring == {c \in MlCallers : mmTask[c].pc \in {"predict", "predict_batch"}}

\* the active model and the map of models can be read: the health check loop
\* holds no guard
GuardsFree == hc.pc \in {"off", "wait"}

\* classify_text: the cache is checked; a hit returns, a miss goes on to
\* acquire a permit
ClassifyText(c, key) ==
    /\ mmTask[c].pc = "idle"
    /\ mmTask' = [mmTask EXCEPT ![c] =
          IF key \in DOMAIN mlCache
          THEN [pc |-> "idle"]
          ELSE [pc |-> "acquire", key |-> key]]
    /\ UNCHANGED <<registry, active, healthy, permits, hc, mlCache>>
    /\ UNCHANGED mmFrame

\* classify_text: inference_semaphore.acquire()
Acquire(c) ==
    /\ mmTask[c].pc = "acquire"
    /\ permits > 0
    /\ permits' = permits - 1
    /\ mmTask' = [mmTask EXCEPT ![c].pc = "lookup"]
    /\ UNCHANGED <<registry, active, healthy, hc, mlCache>>
    /\ UNCHANGED mmFrame

\* classify_text: the active model is looked up; when it is missing the call
\* returns the error and its permit is dropped
Lookup(c) ==
    /\ mmTask[c].pc = "lookup"
    /\ GuardsFree
    /\ IF \E i \in DOMAIN registry : registry[i] = active
       THEN /\ mmTask' = [mmTask EXCEPT ![c].pc = "predict"]
            /\ permits' = permits
       ELSE /\ mmTask' = [mmTask EXCEPT ![c] = [pc |-> "idle"]]
            /\ permits' = permits + 1
    /\ UNCHANGED <<registry, active, healthy, hc, mlCache>>
    /\ UNCHANGED mmFrame

\* classify_text: predict returns; its output is cached, or its error is
\* returned; the permit is dropped
PredictDone(c, out, fail) ==
    /\ mmTask[c].pc = "predict"
    /\ mlCache' = IF fail THEN mlCache ELSE Put(mlCache, mmTask[c].key, out)
    /\ permits' = permits + 1
    /\ mmTask' = [mmTask EXCEPT ![c] = [pc |-> "idle"]]
    /\ UNCHANGED <<registry, active, healthy, hc>>
    /\ UNCHANGED mmFrame

\* MlModelManager::classify_batch: the active model is looked up and its
\* predict_batch is called
MlClassifyBatch(c) ==
    /\ mmTask[c].pc = "idle"
    /\ GuardsFree
    /\ mmTask' = [mmTask EXCEPT ![c] =
          IF \E i \in DOMAIN registry : registry[i] = active
          THEN [pc |-> "predict_batch"]
          ELSE [pc |-> "idle"]]
    /\ UNCHANGED <<registry, active, healthy, permits, hc, mlCache>>
    /\ UNCHANGED mmFrame

\* MlModelManager::classify_batch: predict_batch returns
PredictBatchDone(c) ==
    /\ mmTask[c].pc = "predict_batch"
    /\ mmTask' = [mmTask EXCEPT ![c] = [pc |-> "idle"]]
    /\ UNCHANGED <<registry, active, healthy, permits, hc, mlCache>>
    /\ UNCHANGED mmFrame

\* the caller drops the future of its call at an await: the locals are
\* dropped, a permit held among them
Cancel(c) ==
    /\ mmTask[c].pc # "idle"
    /\ permits' = IF c \in Holders THEN permits + 1 ELSE permits
    /\ mmTask' = [mmTask EXCEPT ![c] = [pc |-> "idle"]]
    /\ UNCHANGED <<registry, active, healthy, hc, mlCache>>
    /\ UNCHANGED mmFrame

MmInit ==
    /\ RMIdle
    /\ SgIdle
    /\ PlIdle /\ SpNew /\ MmNew(max_concurrent_inferences)
    /\ ClNew(MainConfig, PatternLabels)
    /\ RLUnused

NextMl ==
    \/ \E reg \in Registries : Initialize(reg)
    \/ \E c \in MlCallers, key \in MlKeys : ClassifyText(c, key)
    \/ \E c \in MlCallers : Acquire(c)
    \/ \E c \in MlCallers : Lookup(c)
    \/ \E c \in MlCallers, out \in MlOutputs, fail \in BOOLEAN :
           PredictDone(c, out, fail)
    \/ \E c \in MlCallers : MlClassifyBatch(c)
    \/ \E c \in MlCallers : PredictBatchDone(c)
    \/ \E c \in MlCallers : Cancel(c)

SpecMl == MmInit /\ [][NextMl]_vars

\* ---- the health check loop ----

\* an inner scan that starts behind the unhealthy active model
ScanBehind == hc.i + 1

\* the inner scan of the health check starts at the head of the map
ScanStart == 1

\* is_healthy of a model starts answering differently, between two passes
HealthChange(m) ==
    /\ hc.pc = "wait"
    /\ \E i \in DOMAIN registry : registry[i] = m
    /\ healthy' = [healthy EXCEPT ![m] = ~@]
    /\ UNCHANGED <<registry, active, permits, mmTask, hc, mlCache>>
    /\ UNCHANGED mmFrame

\* the health check loop: interval_timer.tick(), the read guard of the models
\* and the write guard of the active model are taken
HcTick ==
    /\ hc.pc = "wait"
    /\ hc' = [pc |-> "outer", i |-> 1, before |-> active]
    /\ UNCHANGED <<registry, active, healthy, permits, mmTask, mlCache>>
    /\ UNCHANGED mmFrame

\* the health check loop: is_healthy of the next model of the map; after the
\* last the guards are dropped
HcOuter ==
    /\ hc.pc = "outer"
    /\ hc' = IF hc.i > Len(registry)
             THEN [pc |-> "wait", before |-> hc.before, after |-> active]
             ELSE IF ~healthy[registry[hc.i]] /\ active = registry[hc.i]
                  THEN [pc |-> "inner", i |-> hc.i, j |-> ScanStart,
                        before |-> hc.before]
                  ELSE [hc EXCEPT !.i = @ + 1]
    /\ UNCHANGED <<registry, active, healthy, permits, mmTask, mlCache>>
    /\ UNCHANGED mmFrame

\* the health check loop, the active model being unhealthy: is_healthy of the
\* next candidate; the first healthy one becomes the active model
HcInner ==
    /\ hc.pc = "inner"
    /\ IF hc.j > Len(registry)
       THEN /\ hc' = [pc |-> "outer", i |-> hc.i + 1, before |-> hc.before]
            /\ active' = active
       ELSE IF healthy[registry[hc.j]]
            THEN /\ active' = registry[hc.j]
                 /\ hc' = [pc |-> "outer", i |-> hc.i + 1, before |-> hc.before]
            ELSE /\ hc' = [hc EXCEPT !.j = @ + 1]
                 /\ active' = active
    /\ UNCHANGED <<registry, healthy, permits, mmTask, mlCache>>
    /\ UNCHANGED mmFrame

\* MlModelManager::switch_model
SwitchModel(model_id) ==
    /\ GuardsFree
    /\ active' = IF \E i \in DOMAIN registry : registry[i] = model_id
                 THEN model_id ELSE active
    /\ UNCHANGED <<registry, healthy, permits, mmTask, hc, mlCache>>
    /\ UNCHANGED mmFrame

NextHealth ==
    \/ \E reg \in Registries : Initialize(reg)
    \/ \E m \in ModelIds : HealthChange(m)
    \/ HcTick
    \/ HcOuter
    \/ HcInner
    \/ \E model_id \in ModelIds \cup {"default"} : SwitchModel(model_id)

SpecHealth == MmInit /\ [][NextHealth]_vars

(* ========================= the processing queue ======================== *)

\* the capacity of the channel of SignalProcessor::new, capped by the bound
\* of the model so that the queue fills
Capacity == IF QueueCap < MaxQueue THEN QueueCap ELSE MaxQueue

\* add_signal calls in one behaviour: enough to fill the queue behind the
\* signal the loop has taken and to keep one producer waiting
MaxProduced == Capacity + 2

\* a channel without a bound
AlwaysRoom(q, n) == TRUE

\* signal_tx.send(signal).await goes on: of the signals sent (q) the loop has
\* received n, and fewer than the capacity are waiting
HasRoom(q, n) == Len(q) - n < Capacity

\* add_signal up to its send: the signal is inserted into the map under the
\* write guard
AddSignalStore(p, ty) ==
    /\ Idle(p)
    /\ Cardinality(added) < MaxProduced
    /\ LET signal == [ClientSignal(ty, NoTime) EXCEPT
                         !.id = 100 + Cardinality(added) + 1]
       IN  /\ signals' = (signal.id :> signal) @@ signals
           /\ added' = added \cup {signal}
           /\ task' = [task EXCEPT ![p] = [pc |-> "a_send", signal |-> signal]]
    /\ ret' = NoRet
    /\ UNCHANGED <<queue, spVars>>
    /\ UNCHANGED producerFrame

\* add_signal: the send to the processing queue, which waits while the queue
\* is full, then record_signal_received and Ok(())
AddSignalSend(p) ==
    /\ task[p].pc = "a_send"
    /\ HasRoom(queue, taken)
    /\ queue' = Append(queue, task[p].signal.id)
    /\ task' = [task EXCEPT ![p] = NoTask]
    /\ ret' = [p |-> p, op |-> "add_signal", res |-> "Ok",
               id |-> task[p].signal.id]
    /\ UNCHANGED <<signals, added, spVars>>
    /\ UNCHANGED producerFrame

\* the steps of the processing loop
LoopStep ==
    \/ LoopRecv
    \/ LoopRules
    \/ LoopExec
    \/ LoopPublish
    \/ LoopProcessed

\* pipelines are registered while two producers add signals and the loop runs
NextQueue ==
    \/ \E pipeline \in SignalPipelines, k \in 1..MaxPipelines :
           AddPipeline(pipeline, k)
    \/ \E p \in Procs, ty \in {"ContentSpam"} : AddSignalStore(p, ty)
    \/ \E p \in Procs : AddSignalSend(p)
    \/ LoopRecv
    \/ LoopRules
    \/ LoopExec
    \/ LoopPublish
    \/ LoopProcessed

\* the tokio runtime schedules every task that can go on: the spawned
\* processing loop and the producers waiting in send
SpecQueue ==
    /\ RMInit
    /\ [][NextQueue]_vars
    /\ WF_vars(LoopStep)
    /\ \A p \in Procs : WF_vars(AddSignalSend(p))

(* ============================ the fan-out bus ========================== *)

BusCap == 100                     \* broadcast::channel(100) of SignalProcessor::new

\* the capacity of the channel of the pipeline results, capped by the bound
\* of the model so that a receiver can fall behind it
BusCapacity == IF BusCap < MaxBus THEN BusCap ELSE MaxBus

\* broadcast::Receiver::recv with `read` of the values sent passed and at
\* least one to come: the next value, or Lagged with the number of values
\* missed when more than the capacity are to come, after which the receiver
\* stands at the oldest value retained
BroadcastRecv(sent, read, cap) ==
    IF Len(sent) - read > cap
    THEN [kind |-> "Lagged", missed |-> Len(sent) - read - cap,
          read |-> Len(sent) - cap]
    ELSE [kind |-> "Ok", value |-> sent[read + 1], read |-> read + 1]

\* what the subscribers' steps leave alone
busFrame == <<rlVars, rmVars, sgVars, clVars, plVars, mmVars,
              rules, pipelines, taken, loop, bus, spTrace>>

\* subscribe_pipeline_results: a receiver that sees the results sent from
\* now on
Subscribe(s) ==
    /\ subs[s] = NoReceiver
    /\ subs' = [subs EXCEPT ![s] = [on |-> TRUE, ch |-> "pipeline",
                                    since |-> Len(bus), read |-> Len(bus),
                                    got |-> <<>>]]
    /\ UNCHANGED busFrame

\* the stream of a subscriber polls its receiver, which has a result to hand
\* out or a gap to report
SubscriberRecv(s) ==
    /\ subs[s].on
    /\ subs[s].read < Len(bus)
    /\ LET r == BroadcastRecv(bus, subs[s].read, BusCapacity)
       IN  subs' = [subs EXCEPT ![s].read = r.read,
                                ![s].got = Append(@, [kind |-> r.kind,
                                    value |-> IF r.kind = "Ok" THEN r.value
                                              ELSE r.missed])]
    /\ UNCHANGED busFrame

\* the client goes away: the stream and its receiver are dropped
SubscriberDrop(s) ==
    /\ subs[s].on
    /\ subs' = [subs EXCEPT ![s] = [on |-> FALSE, dropped |-> TRUE]]
    /\ UNCHANGED busFrame

\* the requests of the fan-out specification: one report type, either reporter
BusRequests == {req \in ValidRequests : req.report_type = "Spam"}

\* reports are created while the loop runs their signals through the
\* pipelines, with subscribers of the pipeline results coming, reading at
\* their own speed and going; nobody but main holds a receiver of the report
\* events, and main never reads from it
NextBus ==
    \/ \E pipeline \in {x \in SignalPipelines : x.enabled}, k \in 1..MaxPipelines :
           AddPipeline(pipeline, k)
    \/ \E req \in BusRequests : CreateRateLimited("p1", req)
    \/ \E req \in BusRequests : CreateBegin("p1", req)
    \/ CreateInsert("p1")
    \/ CreatePersist("p1", FALSE)
    \/ CreateSignal("p1")
    \/ CreateFinish("p1")
    \/ LoopRecv
    \/ LoopRules
    \/ LoopExec
    \/ LoopPublish
    \/ LoopProcessed
    \/ \E s \in Subscribers : Subscribe(s)
    \/ \E s \in Subscribers : SubscriberRecv(s)
    \/ \E s \in Subscribers : SubscriberDrop(s)

SpecBus == RMInit /\ [][NextBus]_vars

(* ============================ investigations =========================== *)

InvestigationStatuses ==
    {"NotStarted", "InProgress", "PendingReview", "Completed", "Escalated"}

Findings == {"f1", "f2"}          \* the Findings handed to add_investigation_finding
Notes == {"n1", "n2"}             \* the InvestigationNotes handed to add_investigation_note

\* the investigation ids the callers pass: the stored ones and one never stored
KnownInvestigations == DOMAIN investigations \cup {UnknownId}

\* chrono's Duration::num_minutes of a duration in ticks: whole minutes
NumMinutes(d) == (d * 1440) \div Day

EvInvestigation(type, investigation_id) ==
    [type |-> type, report_id |-> NoUuid, status |-> "-",
     investigation_id |-> investigation_id]

\* what the operations on stored investigations leave alone
invFrame == <<now, nextUuid, reports, db, signals, queue, lockW, task,
              transitions>>

\* add_investigation_finding: under the write guard of the investigations,
\* with no await
AddInvestigationFinding(p, investigation_id, finding) ==
    /\ Idle(p) /\ CanStart
    /\ investigations' =
           IF investigation_id \in DOMAIN investigations
           THEN [investigations EXCEPT
                    ![investigation_id].findings = Append(@, finding)]
           ELSE investigations
    /\ events' = Append(events, EvInvestigation("investigation.finding_added",
                                                investigation_id))
    /\ ret' = [p |-> p, op |-> "add_investigation_finding", res |-> "Ok",
               id |-> investigation_id,
               found |-> investigation_id \in DOMAIN investigations]
    /\ opCount' = opCount + 1
    /\ UNCHANGED invFrame
    /\ UNCHANGED otherThanRM

\* add_investigation_note
AddInvestigationNote(p, investigation_id, note) ==
    /\ Idle(p) /\ CanStart
    /\ investigations' =
           IF investigation_id \in DOMAIN investigations
           THEN [investigations EXCEPT
                    ![investigation_id].notes = Append(@, note)]
           ELSE investigations
    /\ events' = Append(events, EvInvestigation("investigation.note_added",
                                                investigation_id))
    /\ ret' = [p |-> p, op |-> "add_investigation_note", res |-> "Ok",
               id |-> investigation_id,
               found |-> investigation_id \in DOMAIN investigations]
    /\ opCount' = opCount + 1
    /\ UNCHANGED invFrame
    /\ UNCHANGED otherThanRM

\* complete_investigation
CompleteInvestigation(p, investigation_id, final_status) ==
    /\ Idle(p) /\ CanStart
    /\ investigations' =
           IF investigation_id \in DOMAIN investigations
           THEN [investigations EXCEPT ![investigation_id] =
                    [@ EXCEPT !.status = final_status,
                              !.completed_at = now,
                              !.time_spent_minutes =
                                  NumMinutes(now - investigations[investigation_id]
                                                       .started_at)]]
           ELSE investigations
    /\ events' = Append(events, EvInvestigation("investigation.completed",
                                                investigation_id))
    /\ ret' = [p |-> p, op |-> "complete_investigation", res |-> "Ok",
               id |-> investigation_id, status |-> final_status,
               found |-> investigation_id \in DOMAIN investigations]
    /\ opCount' = opCount + 1
    /\ UNCHANGED invFrame
    /\ UNCHANGED otherThanRM

\* a report is created and resolved while investigations are started, written
\* to and completed by two callers
NextInv ==
    \/ Tick
    \/ \E req \in UpdateRequests : CreateBegin("p1", req)
    \/ CreateInsert("p1")
    \/ CreatePersist("p1", FALSE)
    \/ CreateSignal("p1")
    \/ CreateFinish("p1")
    \/ \E id \in DOMAIN reports : UpdateReportStatus("p1", id, "Resolved")
    \/ \E p \in Procs : UpdatePersist(p, FALSE)
    \/ \E p \in Procs, id \in KnownIds, sid \in Specialists :
           StartInvestigation(p, id, sid)
    \/ \E p \in Procs : InvestigationUpdate(p)
    \/ \E p \in Procs : InvestigationEmit(p)
    \/ \E p \in Procs, id \in KnownInvestigations, finding \in Findings :
           AddInvestigationFinding(p, id, finding)
    \/ \E p \in Procs, id \in KnownInvestigations, note \in Notes :
           AddInvestigationNote(p, id, note)
    \/ \E p \in Procs, id \in KnownInvestigations,
          final_status \in InvestigationStatuses :
           CompleteInvestigation(p, id, final_status)

SpecInv == RMInit /\ [][NextInv]_vars

(* ===================== memory and store, store healthy ================= *)

\* a report is created while two callers update it, assign it and start an
\* investigation on it; no call of the durable store fails
NextAgree ==
    \/ \E req \in UpdateRequests : CreateBegin("p1", req)
    \/ CreateInsert("p1")
    \/ CreatePersist("p1", FALSE)
    \/ CreateSignal("p1")
    \/ CreateFinish("p1")
    \/ \E p \in Procs, id \in DOMAIN reports, st \in Statuses :
           UpdateReportStatus(p, id, st)
    \/ \E p \in Procs : UpdatePersist(p, FALSE)
    \/ \E p \in Procs, id \in DOMAIN reports, sid \in Specialists :
           AssignSpecialist(p, id, sid)
    \/ \E p \in Procs, id \in DOMAIN reports, sid \in Specialists :
           StartInvestigation(p, id, sid)
    \/ \E p \in Procs : InvestigationUpdate(p)
    \/ \E p \in Procs : InvestigationEmit(p)

SpecAgree == RMInit /\ [][NextAgree]_vars

(* ------------------------- rate limiter claims ------------------------ *)

StoreAnswered(e) == e.store \in {"allowed", "denied"}
StoreFailed(e) == e.store \in {"pool_err", "script_err"}

\* requests of key k that the store answered Allowed, stamped in (t - window, t]
AllowedIn(k, t) ==
    {j \in DOMAIN rlLog : /\ rlLog[j].key = k
                          /\ rlLog[j].store = "allowed"
                          /\ t - rlWindow < rlLog[j].t
                          /\ rlLog[j].t <= t}

\* C1: for every key and every rolling interval (t - window_ms, t], at most
\* `limit` requests stamped inside it were answered Allowed by the store,
\* also when several requests carry the same millisecond timestamp.
C1_AdmissionBound ==
    \A k \in Keys, t \in 0..MaxMs : Cardinality(AllowedIn(k, t)) <= rlLimit

\* earlier requests of the same key that were answered Allowed
PriorAllowed(j) ==
    {i \in 1..(j - 1) : rlLog[i].key = rlLog[j].key /\ rlLog[i].store = "allowed"}

NoStoreFailure(k) ==
    \A i \in DOMAIN rlLog : rlLog[i].key = k => StoreAnswered(rlLog[i])

\* C2: for a key whose store calls all succeeded: a request with fewer than
\* `limit` earlier requests is Allowed; a request with `limit` or more earlier
\* Allowed requests inside its window is Denied; a request stamped more than
\* `window` after every earlier Allowed request is Allowed again.
C2_SequenceBehaviour ==
    \A j \in DOMAIN rlLog :
        NoStoreFailure(rlLog[j].key) =>
            /\ Cardinality({i \in 1..(j - 1) : rlLog[i].key = rlLog[j].key}) < rlLimit
                   => rlLog[j].store = "allowed"
            /\ Cardinality({i \in PriorAllowed(j) :
                               /\ rlLog[j].t - rlWindow < rlLog[i].t
                               /\ rlLog[i].t <= rlLog[j].t}) >= rlLimit
                   => rlLog[j].store = "denied"
            /\ (\A i \in PriorAllowed(j) : rlLog[j].t - rlLog[i].t > rlWindow)
                   => rlLog[j].store = "allowed"

\* C3: a request whose store call failed (pool or script error) is forwarded
\* to the inner service like an Allowed one; 429 is answered, and the inner
\* service skipped, exactly when the store answered allowed = 0.
C3_FailOpen ==
    \A j \in DOMAIN rlLog :
        LET e == rlLog[j]
        IN  /\ StoreFailed(e) => (e.status = 200 /\ e.inner)
            /\ e.store = "allowed" => (e.status = 200 /\ e.inner)
            /\ e.status = 429 <=> e.store = "denied"
            /\ e.inner <=> e.status # 429

\* both kinds of store failure and an explicit denial have been answered
C3_Witness ==
    /\ \E j \in DOMAIN rlLog : rlLog[j].store = "pool_err" /\ rlLog[j].inner
    /\ \E j \in DOMAIN rlLog : rlLog[j].store = "script_err" /\ rlLog[j].inner
    /\ \E j \in DOMAIN rlLog : rlLog[j].store = "denied" /\ rlLog[j].status = 429

(* ------------------------ report manager claims ----------------------- *)

\* the lifecycle Pending -> (UnderInvestigation | Dismissed)
\*   -> (Escalated | Resolved | RequiresMoreInfo) -> (Resolved | Dismissed)
LifecycleEdges ==
    ({"Pending"} \X {"UnderInvestigation", "Dismissed"})
    \cup ({"UnderInvestigation", "Dismissed"}
              \X {"Escalated", "Resolved", "RequiresMoreInfo"})
    \cup ({"Escalated", "Resolved", "RequiresMoreInfo"} \X {"Resolved", "Dismissed"})

\* C4: every status change applied to a stored report is an edge of the
\* lifecycle, and a call asking for another change of a stored report
\* returns an error.
C4_LifecycleEdgesOnly ==
    /\ \A i \in DOMAIN transitions :
           <<transitions[i].from, transitions[i].to>> \in LifecycleEdges
    /\ (/\ ret.op = "update_report_status"
        /\ ret.found
        /\ \E i \in DOMAIN transitions :
               /\ transitions[i].report_id = ret.id
               /\ transitions[i].to = ret.status
               /\ <<transitions[i].from, transitions[i].to>> \notin LifecycleEdges)
           => ret.res = "Err"

\* C5: a report whose status is Resolved or Dismissed keeps a terminal status
\* in every later state.
C5_TerminalStaysTerminal ==
    [][\A id \in DOMAIN reports :
           reports[id].status \in Terminal => reports'[id].status \in Terminal]_vars

\* C6: a stored report has resolved_at set exactly when its status is Resolved
\* or Dismissed, and no step decreases its updated_at.
C6_ResolvedAtIffTerminal ==
    /\ [](\A id \in DOMAIN reports :
             reports[id].resolved_at # NoTime <=> reports[id].status \in Terminal)
    /\ [][\A id \in DOMAIN reports :
             reports'[id].updated_at >= reports[id].updated_at]_vars

\* the statuses carried by the report.status_updated events of report id
StatusEvents(id) ==
    LET sel == SelectSeq(events, LAMBDA e :
                   e.type = "report.status_updated" /\ e.report_id = id)
    IN  [i \in 1..Len(sel) |-> sel[i].status]

\* the statuses report id moved to, in the order the map was written
StatusMoves(id) ==
    LET sel == SelectSeq(transitions, LAMBDA t : t.report_id = id)
    IN  [i \in 1..Len(sel) |-> sel[i].to]

\* C7: for every report the published report.status_updated events carry, in
\* order, exactly the status changes applied to it: one event per change,
\* none without a change.
C7_EventsEqualTransitions ==
    \A id \in DOMAIN reports : StatusEvents(id) = StatusMoves(id)

\* C8: update_report_status on an id that is not stored returns an error,
\* and neither of its steps changes the map, the durable store or the events.
C8_UnknownReportRejected ==
    /\ []((ret.op = "update_report_status" /\ ~ret.found) => ret.res = "Err")
    /\ [][\A p \in Procs :
             (/\ task'[p] # task[p]
              /\ \/ /\ task'[p].pc = "u_persist"
                    /\ task'[p].op = "update_report_status"
                    /\ ~task'[p].found
                 \/ /\ task[p].pc = "u_persist"
                    /\ task[p].op = "update_report_status"
                    /\ ~task[p].found)
             => UNCHANGED <<reports, db, events>>]_vars

\* the signals derived from report r
SignalsOf(r) ==
    {sid \in DOMAIN signals : signals[sid].metadata.report_id = UuidText(r.id)}

\* C9: when create_report returns a report, the signal store holds exactly one
\* signal for it: of type UserReport, about the report's target, with the
\* report's id, type and reporter in its metadata; the call's step that adds it
\* adds nothing else and no other step of the call adds a signal.
C9_OneSignalPerReport ==
    /\ []((ret.op = "create_report" /\ ret.res = "Ok") =>
            /\ Cardinality(SignalsOf(ret.rep)) = 1
            /\ \A sid \in SignalsOf(ret.rep) :
                  /\ signals[sid].signal_type = "UserReport"
                  /\ signals[sid].user_id = UuidText(ret.rep.target_id)
                  /\ signals[sid].metadata.report_type = ret.rep.report_type
                  /\ signals[sid].metadata.reporter_id = UuidText(ret.rep.reporter_id))
    /\ [][\A p \in Procs :
             (task[p].pc # "idle" /\ task[p].op = "create_report" /\ task'[p] # task[p])
             => IF task[p].pc = "c_signal"
                THEN /\ DOMAIN signals \subseteq DOMAIN signals'
                     /\ Cardinality(DOMAIN signals' \ DOMAIN signals) = 1
                     /\ \A sid \in DOMAIN signals : signals'[sid] = signals[sid]
                ELSE signals' = signals]_vars

\* a create_report call returned the report of a target other than the reporter
C9_Witness ==
    /\ ret.op = "create_report" /\ ret.res = "Ok"
    /\ ret.rep.target_id # ret.rep.reporter_id
    /\ Cardinality(SignalsOf(ret.rep)) = 1
    /\ Cardinality(DOMAIN signals) = 2

\* the request is one that the claim calls invalid
InvalidRequest(req) == Trim(req.reason) = <<>> \/ Len(req.evidence) = 0

\* C10: a create_report call whose reason is empty after trimming, or whose
\* evidence list is empty, returns an error, and its step changes neither the
\* report map, the durable store, the signal store, the queue nor the events.
C10_InvalidCreateHasNoEffect ==
    /\ []((ret.op = "create_report" /\ InvalidRequest(ret.req)) => ret.res = "Err")
    /\ [][(/\ ret' # ret
           /\ ret'.op = "create_report"
           /\ InvalidRequest(ret'.req))
          => UNCHANGED <<reports, db, signals, queue, events, investigations,
                         task>>]_vars
    /\ [](\A id \in DOMAIN reports :
             ~InvalidRequest([reason |-> reports[id].reason,
                              evidence |-> reports[id].evidence]))

\* a whitespace-only reason was rejected while a report was stored
C10_Witness ==
    /\ ret.op = "create_report" /\ ret.res = "Err"
    /\ ret.req.reason = <<" ">> /\ ret.req.evidence # <<>>
    /\ DOMAIN reports # {} /\ DOMAIN signals # {} /\ events # <<>>

\* the stored reports of reporter u created in the rolling day (t - Day, t]
ReportsInDay(u, t) ==
    {id \in DOMAIN reports : /\ reports[id].reporter_id = u
                             /\ t - Day < reports[id].created_at
                             /\ reports[id].created_at <= t}

\* C11: for every reporter and every rolling 24h window, whatever the
\* interleaving of concurrent create_report calls, at most
\* max_reports_per_user stored reports of that reporter were created inside
\* the window, and a call that found the limit reached returned an error
\* without storing a report.
C11_ReportRateLimit ==
    /\ [](\A u \in Users, t \in 0..MaxTime :
             Cardinality(ReportsInDay(u, t)) <= max_reports_per_user)
    /\ [][(/\ ret' # ret
           /\ ret'.op = "create_report" /\ ret'.res = "Err"
           /\ ret'.err = "Rate limit exceeded for reports")
          => UNCHANGED <<reports, db, signals, events>>]_vars

\* C12: when create_report returns a report whose priority is Critical or
\* Urgent, the stored report has assigned_specialist populated.
C12_AutoAssigned ==
    (/\ ret.op = "create_report" /\ ret.res = "Ok"
     /\ ret.rep.priority \in {"Critical", "Urgent"})
        => /\ ret.rep.assigned_specialist # NoUuid
           /\ reports[ret.rep.id].assigned_specialist # NoUuid

\* C14: a create_report or update_report_status call whose durable-store
\* write failed returns an error: a create_report that returned Ok left its
\* row in the store, and an update_report_status whose write failed did not
\* return Ok.
C14_StoreFailurePropagates ==
    /\ (ret.op = "create_report" /\ ret.res = "Ok") => ret.rep.id \in DOMAIN db
    /\ (ret.op = "update_report_status" /\ ~ret.stored) => ret.res = "Err"

\* the priority table of the report types
PriorityOfType(ty) ==
    IF ty = "ChildSafety" THEN "Critical"
    ELSE IF ty \in {"Violence", "Threats"} THEN "Urgent"
    ELSE IF ty \in {"HateSpeech", "Harassment"} THEN "High"
    ELSE IF ty \in {"Spam", "Misinformation"} THEN "Normal"
    ELSE "Low"

\* the severity table of the priorities
SeverityOfPriority(pr) ==
    IF pr \in {"Critical", "Urgent"} THEN "Critical"
    ELSE IF pr = "High" THEN "High"
    ELSE IF pr = "Normal" THEN "Medium"
    ELSE "Low"

\* C13: the priority of every stored report and the severity of every
\* derived signal follow the tables: ChildSafety -> Critical; Violence,
\* Threats -> Urgent; HateSpeech, Harassment -> High; Spam, Misinformation ->
\* Normal; any other type -> Low; severity Critical for Critical and Urgent,
\* High for High, Medium for Normal, Low for Low. A report is Pending when
\* it enters the map and when create_report returns it.
C13_PriorityAndSeverity ==
    /\ [](\A id \in DOMAIN reports :
             reports[id].priority = PriorityOfType(reports[id].report_type))
    /\ [](\A sid \in DOMAIN signals :
             signals[sid].severity =
                 SeverityOfPriority(PriorityOfType(signals[sid].metadata.report_type)))
    /\ []((ret.op = "create_report" /\ ret.res = "Ok") => ret.rep.status = "Pending")
    /\ [][\A id \in DOMAIN reports' \ DOMAIN reports :
             reports'[id].status = "Pending"]_vars

\* reports of an Urgent type and of a type with no row of its own in the
\* table were created and their signals derived
C13_Witness ==
    /\ \E id \in DOMAIN reports : reports[id].report_type = "Threats"
    /\ \E sid \in DOMAIN signals :
           signals[sid].metadata.report_type = "Threats"
    /\ \E sid \in DOMAIN signals :
           signals[sid].metadata.report_type = "Custom"
    /\ ret.op = "create_report" /\ ret.res = "Ok"

IsRead == ret.op \in {"get_signal", "get_signals"}

\* C15: no get_signal or get_signals call returns a signal whose expires_at
\* is set and is at or before the time of the call, whether or not the
\* sweeper has run since the signal expired.
C15_ExpiredAbsentFromReads ==
    IsRead => \A sig \in ret.result :
                  sig.expires_at = NoTime \/ sig.expires_at > ret.at

Computed ==
    {clLog[i].out : i \in {j \in DOMAIN clLog : ~clLog[j].hit}}
    \cup {slot[s].out : s \in {x \in Slots : slot[x].pc = "done" /\ ~slot[x].hit}}

C20_FusionRule ==
    \A i \in DOMAIN clLog :
        (clLog[i].out.ok /\ ~clLog[i].hit) =>
            LET e == clLog[i]
                final == [label |-> e.out.val.label,
                          confidence |-> e.out.val.confidence]
            IN  /\ e.ml.confidence > cfg.min_confidence_threshold => final = e.ml
                /\ ~(e.ml.confidence > cfg.min_confidence_threshold)
                       => final = e.rule
                /\ ~cfg.enable_ml_inference
                       => e.ml = [label |-> "Clean", confidence |-> Frac(1, 2)]
                /\ ~cfg.enable_rule_based
                       => e.rule = [label |-> "Clean", confidence |-> Frac(1, 2)]
                /\ cfg.enable_rule_based
                       => e.rule = RuleClassify(e.req.text, ruleOrder)

\* one miss returned the rule output because the ML confidence equals the
\* threshold, another returned the ML output
C20_Witness ==
    /\ cfg.enable_ml_inference /\ cfg.enable_rule_based
    /\ \E i, j \in DOMAIN clLog :
           /\ clLog[i].out.ok /\ ~clLog[i].hit
           /\ clLog[i].ml.confidence = cfg.min_confidence_threshold
           /\ clLog[i].out.val.label = clLog[i].rule.label
           /\ clLog[i].rule.label # clLog[i].ml.label
           /\ clLog[j].out.ok /\ ~clLog[j].hit
           /\ clLog[j].ml.confidence > cfg.min_confidence_threshold
           /\ clLog[j].out.val.label = clLog[j].ml.label
           /\ clLog[j].rule.label # clLog[j].ml.label

\* C19: when classify_batch succeeds on r1..rn its output has length n and
\* output[i].content_id = ri.content_id for every i, with and without
\* batch_processing and whatever the order in which the calls of a chunk
\* finish; when a classify call of the batch fails, classify_batch returns
\* an error.
C19_BatchOrder ==
    /\ []((batch.pc = "returned" /\ batch.out.ok) =>
            /\ Len(batch.out.val) = Len(batch.reqs)
            /\ \A i \in DOMAIN batch.reqs :
                   batch.out.val[i].content_id = batch.reqs[i].content_id)
    /\ [][(/\ batch' # batch
           /\ \E s \in BatchSlots : slot[s].pc = "done" /\ ~slot[s].out.ok)
          => (batch'.pc = "returned" /\ ~batch'.out.ok)]_vars

\* a batch of MaxBatch requests, longer than a chunk and with different
\* content ids inside the first chunk, returned its results
C19_Witness ==
    /\ batch.pc = "returned" /\ batch.out.ok
    /\ cfg.batch_processing
    /\ Len(batch.reqs) = MaxBatch /\ MaxBatch > batch_size
    /\ batch.reqs[1].content_id # batch.reqs[2].content_id
    /\ batch.out.val[1].id > batch.out.val[2].id

\* C21: with the rule-based layer enabled, a classify call whose ML layer
\* fails (no active model, or predict returns an error) still succeeds and
\* returns the rule classifier's label and confidence; classify fails only
\* when no classifier path is available.
C21_MlDegradation ==
    \A i \in DOMAIN clLog :
        (cfg.enable_rule_based /\ ~clLog[i].hit) =>
            /\ clLog[i].out.ok
            /\ clLog[i].ml = NoOutput =>
                   /\ clLog[i].out.val.label = RuleResult(clLog[i].req.text).label
                   /\ clLog[i].out.val.confidence
                          = RuleResult(clLog[i].req.text).confidence

\* C22: with signal processing enabled, a classify call on its miss path adds
\* a HighConfidenceViolation signal iff the final confidence > 0.8, a
\* ContentSpam signal of severity Medium iff the final label is Spam, and no
\* other signal; the signals list of the result it returns holds exactly the
\* ids of the signals the call added to the store.
C22_DerivedSignals ==
    /\ [][\A s \in Slots :
             (/\ cfg.enable_signal_processing
              /\ slot[s].pc = "signals" /\ slot'[s].pc = "finish")
             => LET new == {signals'[id] : id \in DOMAIN signals' \ DOMAIN signals}
                    high == {x \in new : x.signal_type = "HighConfidenceViolation"}
                    spam == {x \in new : x.signal_type = "ContentSpam"}
                IN  /\ Cardinality(high)
                           = IF slot[s].confidence > Frac(8, 10) THEN 1 ELSE 0
                    /\ Cardinality(spam) = IF slot[s].label = "Spam" THEN 1 ELSE 0
                    /\ \A x \in spam : x.severity = "Medium"
                    /\ new = high \cup spam
                    /\ \A x \in new : x.content_id = slot[s].req.content_id
                    /\ Len(slot'[s].signals) = Cardinality(new)
                    /\ {slot'[s].signals[i] : i \in DOMAIN slot'[s].signals}
                           = {x.id : x \in new}
                    /\ \A id \in DOMAIN signals : signals'[id] = signals[id]]_vars
    /\ [][\A s \in Slots :
             (slot[s].pc = "finish" /\ slot'[s].pc = "done" /\ slot'[s].out.ok)
             => /\ slot'[s].out.val.signals = slot[s].signals
                /\ slot'[s].out.val.label = slot[s].label
                /\ slot'[s].out.val.confidence = slot[s].confidence
                /\ UNCHANGED signals]_vars

\* one call returned a Spam result of confidence 0.9 with its two signals,
\* both in the store, and another returned a result of confidence exactly
\* 0.8 with no signal
C22_Witness ==
    \E i, j \in DOMAIN clLog :
        /\ clLog[i].out.ok /\ ~clLog[i].hit
        /\ clLog[i].out.val.label = "Spam"
        /\ clLog[i].out.val.confidence > Frac(8, 10)
        /\ Len(clLog[i].out.val.signals) = 2
        /\ \A k \in 1..2 : clLog[i].out.val.signals[k] \in DOMAIN signals
        /\ signals[clLog[i].out.val.signals[1]].signal_type
               = "HighConfidenceViolation"
        /\ signals[clLog[i].out.val.signals[2]].signal_type = "ContentSpam"
        /\ clLog[j].out.ok /\ ~clLog[j].hit
        /\ clLog[j].out.val.confidence = Frac(8, 10)
        /\ clLog[j].out.val.signals = <<>>

\* matches / |patterns| of a label for a text, capped at 0.9
CappedRatio(label, text) ==
    Min(Frac(Cardinality({r \in Patterns(label) : IsMatch(r, text)}),
             Cardinality(Patterns(label))),
        Frac(9, 10))

\* the label with the highest ratio, the earlier label of the enumeration
\* Spam, HateSpeech, Violence winning a tie; (Clean, 0.1) without a match
ByEnumerationOrder(text) ==
    LET hit == {i \in DOMAIN PatternLabels : CappedRatio(PatternLabels[i], text) > 0}
        best == CHOOSE i \in hit :
                    \A j \in hit :
                        \/ CappedRatio(PatternLabels[i], text)
                               > CappedRatio(PatternLabels[j], text)
                        \/ /\ CappedRatio(PatternLabels[i], text)
                                  = CappedRatio(PatternLabels[j], text)
                           /\ i <= j
    IN  IF hit = {} THEN [label |-> "Clean", confidence |-> Frac(1, 10)]
        ELSE [label |-> PatternLabels[best],
              confidence |-> CappedRatio(PatternLabels[best], text)]

\* C23: the rule classifier's label and confidence are a function of the set
\* of matched patterns alone: the label of the highest ratio matches/|patterns|,
\* a tie going to the earlier label of Spam, HateSpeech, Violence, with
\* confidence min(0.9, ratio), and (Clean, 0.1) when nothing matches.
C23_RuleClassifierResult ==
    \A i \in DOMAIN clLog :
        (cfg.enable_rule_based /\ ~clLog[i].hit /\ clLog[i].out.ok) =>
            clLog[i].rule = ByEnumerationOrder(clLog[i].req.text)

(* ---------------------------- policy claims ---------------------------- *)

\* the severity of a decision: none < Warn < Mute < Suspend
ActionRank(action) ==
    CASE action = "None" -> 0
      [] action = "Warn" -> 1
      [] action = "Mute" -> 2
      [] action = "Suspend" -> 3

\* C24: evaluate_policy maps score > 0.9 to Suspend, 0.7 < score <= 0.9 to
\* Mute, 0.5 < score <= 0.7 to Warn and score <= 0.5 to no action, and a
\* higher score never gets a milder action.
C24_PolicyThresholds ==
    /\ \A i \in DOMAIN policyLog :
           LET score == policyLog[i].score
               action == policyLog[i].action
           IN  /\ score > Frac(9, 10) => action = "Suspend"
               /\ (Frac(7, 10) < score /\ score <= Frac(9, 10)) => action = "Mute"
               /\ (Frac(5, 10) < score /\ score <= Frac(7, 10)) => action = "Warn"
               /\ score <= Frac(5, 10) => action = "None"
    /\ \A i, j \in DOMAIN policyLog :
           policyLog[i].score <= policyLog[j].score
               => ActionRank(policyLog[i].action) <= ActionRank(policyLog[j].action)

\* the score 0.9 itself was muted and a score above it suspended
C24_Witness ==
    \E i, j \in DOMAIN policyLog :
        /\ policyLog[i].score = Frac(9, 10) /\ policyLog[i].action = "Mute"
        /\ policyLog[j].score > Frac(9, 10) /\ policyLog[j].action = "Suspend"

(* ----------------------- event serialization claim --------------------- *)

\* C25: whatever the interleaving of concurrent update_report_status calls on
\* a report, each status write and the report.status_updated event carrying
\* the written status happen together, in one order for all callers, so the
\* last report.status_updated event of a report carries the status the
\* report has in memory.
C25_EventSerialization ==
    /\ [][\A p \in Procs :
             (/\ task[p].pc = "idle" /\ task'[p].pc = "u_persist"
              /\ task'[p].op = "update_report_status" /\ task'[p].found)
             => /\ reports'[task'[p].id].status = task'[p].status
                /\ Len(events') = Len(events) + 1
                /\ SubSeq(events', 1, Len(events)) = events
                /\ events'[Len(events')]
                       = [type |-> "report.status_updated",
                          report_id |-> task'[p].id,
                          status |-> reports'[task'[p].id].status]]_vars
    /\ [][(/\ Len(events') > Len(events)
           /\ events'[Len(events')].type = "report.status_updated")
          => reports'[events'[Len(events')].report_id].status
                 = events'[Len(events')].status]_vars
    /\ [](\A id \in DOMAIN reports :
             StatusEvents(id) # <<>>
                 => StatusEvents(id)[Len(StatusEvents(id))] = reports[id].status)

\* two update_report_status calls wrote different statuses to the same
\* report and the second has returned
C25_Witness ==
    /\ ret.op = "update_report_status" /\ ret.found
    /\ Len(StatusEvents(ret.id)) = 2
    /\ StatusEvents(ret.id)[1] # StatusEvents(ret.id)[2]
    /\ ret.status = StatusEvents(ret.id)[2]
    /\ reports[ret.id].status = ret.status

(* ----------------------- signal processing claims ---------------------- *)

\* the entry the processing loop appends to its history in this step
Appended == spTrace'[Len(spTrace')]

\* the executions of pipelines recorded for a signal
Executed(signal_id) ==
    {k \in DOMAIN spTrace :
        spTrace[k].step = "exec" /\ spTrace[k].signal_id = signal_id}

\* the results on the bus for a signal and a pipeline
OnBus(signal_id, pipeline_id) ==
    {k \in DOMAIN bus :
        bus[k].signal_id = signal_id /\ bus[k].pipeline_id = pipeline_id}

\* C26: for every signal the processing loop takes from the queue, the rules
\* are evaluated before any pipeline is executed for it, a PipelineResult is
\* published only after the execution of its pipeline for that signal, and
\* the signal is recorded as processed only after the result of every
\* pipeline executed for it was published.
C26_LoopOrdering ==
    /\ [][(Len(spTrace') > Len(spTrace) /\ Appended.step = "exec")
          => /\ \E k \in DOMAIN spTrace :
                    /\ spTrace[k].step = "rules"
                    /\ spTrace[k].signal_id = Appended.signal_id
             /\ \A k \in DOMAIN spTrace :
                    ~(/\ spTrace[k].step = "processed"
                      /\ spTrace[k].signal_id = Appended.signal_id)]_vars
    /\ [][bus' # bus
          => /\ Len(bus') = Len(bus) + 1
             /\ SubSeq(bus', 1, Len(bus)) = bus
             /\ LET r == bus'[Len(bus')]
                IN  /\ \E k \in Executed(r.signal_id) :
                           spTrace[k].pipeline_id = r.pipeline_id
                    /\ OnBus(r.signal_id, r.pipeline_id) = {}
                    /\ \A j \in DOMAIN r.stage_results :
                           r.stage_results[j].success
                    /\ \A k \in DOMAIN spTrace :
                           ~(/\ spTrace[k].step = "processed"
                             /\ spTrace[k].signal_id = r.signal_id)]_vars
    /\ [][(Len(spTrace') > Len(spTrace) /\ Appended.step = "processed")
          => \A k \in Executed(Appended.signal_id) :
                 OnBus(Appended.signal_id, spTrace[k].pipeline_id) # {}]_vars

\* a signal went through rules that returned actions and through two enabled
\* pipelines, whose results are on the bus, and is recorded as processed
C26_Witness ==
    \E k, r \in DOMAIN spTrace :
        /\ spTrace[k].step = "processed"
        /\ spTrace[r].step = "rules" /\ spTrace[r].actions # <<>>
        /\ spTrace[r].signal_id = spTrace[k].signal_id
        /\ Cardinality(Executed(spTrace[k].signal_id)) = 2
        /\ \A pid \in {"pa", "pb"} : OnBus(spTrace[k].signal_id, pid) # {}

\* the value of a signal's field that a condition names
FieldOf(signal, field) ==
    IF field = "severity" THEN Str(signal.severity) ELSE Num(signal.confidence)

\* a condition evaluated according to its own operator
HoldsByOperator(signal, condition) ==
    LET have == FieldOf(signal, condition.field)
        want == condition.value
    IN  CASE condition.operator = "Equals" -> have = want
          [] condition.operator = "NotEquals" -> have # want
          [] condition.operator = "GreaterThan" ->
                 have.kind = "num" /\ want.kind = "num" /\ have.num > want.num
          [] condition.operator = "LessThan" ->
                 have.kind = "num" /\ want.kind = "num" /\ have.num < want.num

\* the conditions cs[1..n] folded from left to right with their logical
\* operators, without precedence; an empty list is true
RECURSIVE FoldConditions(_, _, _)
FoldConditions(signal, cs, n) ==
    IF n = 0 THEN TRUE
    ELSE IF n = 1 THEN HoldsByOperator(signal, cs[1])
    ELSE IF cs[n].logical_operator = "And"
         THEN FoldConditions(signal, cs, n - 1) /\ HoldsByOperator(signal, cs[n])
         ELSE FoldConditions(signal, cs, n - 1) \/ HoldsByOperator(signal, cs[n])

\* the rules of rs that match a signal by type and folded conditions
MatchingByFold(signal, rs) ==
    {i \in DOMAIN rs :
        /\ rs[i].enabled
        /\ signal.signal_type \in rs[i].signal_types
        /\ FoldConditions(signal, rs[i].conditions, Len(rs[i].conditions))}

\* the members of a sequence
Range(seq) == {seq[i] : i \in DOMAIN seq}

\* C29: the actions apply_rules returns for a signal are those of the enabled
\* rules whose signal_types hold the signal's type and whose conditions, each
\* evaluated by its own operator and folded left to right with the logical
\* operators, are true; disabled rules contribute nothing.
C29_RuleMatchSemantics ==
    \A k \in DOMAIN spTrace :
        spTrace[k].step = "rules" =>
            Range(spTrace[k].actions)
                = UNION {Range(spTrace[k].rules[i].actions) :
                            i \in MatchingByFold(spTrace[k].signal, spTrace[k].rules)}

\* the actions of rs[i] for i in todo, the lowest priority value first and
\* rules of equal priority in the order of rs
RECURSIVE ByPriority(_, _)
ByPriority(rs, todo) ==
    IF todo = {} THEN <<>>
    ELSE LET first == CHOOSE i \in todo :
                         \A j \in todo :
                             \/ rs[i].priority < rs[j].priority
                             \/ rs[i].priority = rs[j].priority /\ i <= j
         IN  rs[first].actions \o ByPriority(rs, todo \ {first})

\* C30: whatever the order of the add_rule calls, the actions returned for a
\* signal are the actions of the matching rules in ascending order of the
\* rules' priority.
C30_PriorityOrder ==
    \A k \in DOMAIN spTrace :
        spTrace[k].step = "rules" =>
            spTrace[k].actions
                = ByPriority(spTrace[k].rules,
                             {i \in DOMAIN spTrace[k].rules :
                                 /\ spTrace[k].rules[i].enabled
                                 /\ RuleMatchesSignal(spTrace[k].signal,
                                                      spTrace[k].rules[i])})

(* ------------------------- model manager claims ------------------------ *)

\* C27: the calls of predict and predict_batch in flight, from classify_text
\* and classify_batch together, never exceed max_concurrent_inferences, and
\* no permit is lost: the permits left and the permits held by calls in
\* progress always add up to max_concurrent_inferences, whether a call
\* finishes, fails or is cancelled.
C27_InferenceCap ==
    /\ Cardinality(Inferring) <= max_concurrent_inferences
    /\ permits + Cardinality(Holders) = max_concurrent_inferences
    /\ permits >= 0

\* the position of a model in the map's iteration order
IndexOf(m) == CHOOSE i \in DOMAIN registry : registry[i] = m

\* the models that report healthy
HealthyAt == {i \in DOMAIN registry : healthy[registry[i]]}

\* C28: when a pass of the health check ends, the active model having been a
\* registered model that reports unhealthy while some registered model
\* reports healthy, the active model is the first healthy model in the map's
\* iteration order; when the active model was healthy, or no model is
\* healthy, the active id is what it was; and the active id is only ever set
\* to an id in the registry.
C28_HealthFailover ==
    /\ [][(hc.pc = "outer" /\ hc'.pc = "wait")
          => LET registered == \E i \in DOMAIN registry : registry[i] = hc.before
             IN  /\ (registered /\ ~healthy[hc.before] /\ HealthyAt # {})
                        => active' = registry[CHOOSE i \in HealthyAt :
                                                 \A j \in HealthyAt : i <= j]
                 /\ (registered /\ healthy[hc.before]) => active' = hc.before
                 /\ HealthyAt = {} => active' = hc.before]_vars
    /\ [][active' # active
          => \E i \in DOMAIN registry' : registry'[i] = active']_vars

\* a pass over three models ended with the failover from the unhealthy
\* active model to a healthy model that the map iterates earlier, a model
\* between them being unhealthy as well
C28_Witness ==
    /\ hc.pc = "wait" /\ "after" \in DOMAIN hc
    /\ Len(registry) = 3
    /\ hc.before = registry[3] /\ hc.after = registry[1]
    /\ active = registry[1]
    /\ ~healthy[registry[2]] /\ ~healthy[registry[3]]

(* ---------------------- processing queue claims ------------------------ *)

\* the signals recorded as processed, in the order they were recorded
RECURSIVE ProcessedFrom(_)
ProcessedFrom(k) ==
    IF k > Len(spTrace) THEN <<>>
    ELSE (IF spTrace[k].step = "processed"
          THEN <<spTrace[k].signal_id>> ELSE <<>>) \o ProcessedFrom(k + 1)

Processed == ProcessedFrom(1)

\* the results on the bus for a signal
ResultsOf(signal_id) == {k \in DOMAIN bus : bus[k].signal_id = signal_id}

RECURSIVE ReadAfter(_, _)
ReadAfter(s, k) ==
    IF k = 0 THEN subs[s].since
    ELSE ReadAfter(s, k - 1)
         + (IF subs[s].got[k].kind = "Ok" THEN 1 ELSE subs[s].got[k].value)

\* the subscribers that hold a receiver
Subscribed == {s \in Subscribers : subs[s].on}

\* the entry a subscriber's receive appends in this step
Received(s) == subs'[s].got[Len(subs'[s].got)]

TerminalInvestigation == {"Completed", "Escalated"}

\* a call of add_investigation_finding or add_investigation_note returns in
\* this step
AddReturns ==
    /\ ret' # ret
    /\ ret'.op \in {"add_investigation_finding", "add_investigation_note"}

\* C33: add_investigation_finding and add_investigation_note on an unknown
\* investigation id return UnknownInvestigation, change no state and publish
\* no event; on a known investigation that is not terminal they append
\* exactly one element and publish exactly one event.
C33_UnknownInvestigationRejected ==
    [][AddReturns =>
          IF ~ret'.found
          THEN /\ ret'.res = "UnknownInvestigation"
               /\ investigations' = investigations
               /\ events' = events
          ELSE investigations[ret'.id].status \notin TerminalInvestigation
               => /\ Len(investigations'[ret'.id].findings)
                        + Len(investigations'[ret'.id].notes)
                      = Len(investigations[ret'.id].findings)
                        + Len(investigations[ret'.id].notes) + 1
                  /\ Len(events') = Len(events) + 1]_vars

\* C34: complete_investigation changes the status, completed_at and
\* time_spent_minutes only of an investigation that is InProgress or
\* PendingReview; completed_at is set only on an investigation in a terminal
\* status (Completed, Escalated), is never overwritten once set, and
\* time_spent_minutes is then the whole minutes from started_at to
\* completed_at.
C34_CompletionOnceAndTerminal ==
    /\ [][\A id \in DOMAIN investigations :
             (\/ investigations'[id].status # investigations[id].status
              \/ investigations'[id].completed_at # investigations[id].completed_at
              \/ investigations'[id].time_spent_minutes
                     # investigations[id].time_spent_minutes)
             => investigations[id].status \in {"InProgress", "PendingReview"}]_vars
    /\ [](\A id \in DOMAIN investigations :
             investigations[id].completed_at # NoTime
             => /\ investigations[id].status \in TerminalInvestigation
                /\ investigations[id].time_spent_minutes
                       = NumMinutes(investigations[id].completed_at
                                    - investigations[id].started_at))
    /\ [][\A id \in DOMAIN investigations :
             investigations[id].completed_at # NoTime
             => investigations'[id].completed_at
                    = investigations[id].completed_at]_vars

\* s is a prefix of t
IsPrefix(s, t) == Len(s) <= Len(t) /\ SubSeq(t, 1, Len(s)) = s

\* C35: in every step the findings and the notes of a stored investigation
\* are prefixes of what they are after the step, and nothing is appended to
\* them once the investigation is in a terminal status.
C35_AppendOnly ==
    [][\A id \in DOMAIN investigations :
          /\ id \in DOMAIN investigations'
          /\ IsPrefix(investigations[id].findings, investigations'[id].findings)
          /\ IsPrefix(investigations[id].notes, investigations'[id].notes)
          /\ investigations[id].status \in TerminalInvestigation
             => /\ investigations'[id].findings = investigations[id].findings
                /\ investigations'[id].notes = investigations[id].notes]_vars

\* start_investigation writes the report's status in this step
InvestigationWrites ==
    \E p \in Procs : task[p].pc = "i_update" /\ task'[p].pc = "u_persist"

\* C36: every stored investigation's report_id is the id of a report the
\* manager holds; start_investigation for an unknown report returns
\* UnknownReport, and for a Resolved or Dismissed report it leaves the status
\* as it is.
C36_InvestigationNeedsReport ==
    /\ [](\A i \in DOMAIN investigations :
             investigations[i].report_id \in DOMAIN reports)
    /\ [](ret.op = "start_investigation" /\ ~ret.found
             => ret.res = "UnknownReport")
    /\ [][InvestigationWrites
             => \A id \in DOMAIN reports :
                    reports[id].status \in Terminal
                    => reports'[id].status = reports[id].status]_vars

(* ------------------------ memory and store claims ---------------------- *)

\* no call of the report manager is in progress
Quiescent == \A p \in Procs : Idle(p)

\* C37: when no call is in progress and no call of the store has failed,
\* every report of the in-memory map has a row in the durable store with the
\* same status, the same assigned specialist, and resolved_at set in the one
\* exactly when it is set in the other.
C37_MemoryStoreAgreement ==
    Quiescent =>
        \A id \in DOMAIN reports :
            /\ id \in DOMAIN db
            /\ db[id].status = reports[id].status
            /\ db[id].assigned_specialist = reports[id].assigned_specialist
            /\ (db[id].resolved_at = NoTime) <=> (reports[id].resolved_at = NoTime)

\* C38: an event report.status_updated or investigation.started about a
\* report comes after the report.created event of that report, and the
\* status in a report.created event is the status the report has in the map
\* when the event is sent.
C38_CreatedEventFirst ==
    /\ [](\A k \in DOMAIN events :
             events[k].type \in {"report.status_updated", "investigation.started"}
             => \E j \in 1..(k - 1) :
                    /\ events[j].type = "report.created"
                    /\ events[j].report_id = events[k].report_id)
    /\ [][(Len(events') = Len(events) + 1
           /\ events'[Len(events')].type = "report.created")
          => reports[events'[Len(events')].report_id].status
                 = events'[Len(events')].status]_vars

(* ------------------ classification per content id claims --------------- *)

\* C39: with caching enabled, no two signals of the same type are derived
\* for one content_id, and all classify calls that return a result for one
\* content_id return the same label and confidence.
C39_OneClassificationPerContent ==
    cfg.cache_results =>
        /\ \A a, b \in DOMAIN signals :
               (/\ signals[a].content_id = signals[b].content_id
                /\ signals[a].signal_type = signals[b].signal_type) => a = b
        /\ \A i, j \in DOMAIN clLog :
               (/\ clLog[i].out.ok /\ clLog[j].out.ok
                /\ clLog[i].req.content_id = clLog[j].req.content_id)
               => /\ clLog[i].out.val.label = clLog[j].out.val.label
                  /\ clLog[i].out.val.confidence = clLog[j].out.val.confidence

\* a classify call gets an error as its return value in this step
FailsNow(s) == slot[s].pc # "done" /\ slot'[s].pc = "done" /\ ~slot'[s].out.ok

\* C40: when a classify call returns an error, the signal store holds no
\* signal added by that call and the call has written no entry to the result
\* cache.
C40_FailureLeavesNoTrace ==
    [][\A s \in Slots :
          FailsNow(s)
          => /\ slot[s].pc = "finish"
                => \A id \in Range(slot[s].signals) : id \notin DOMAIN signals'
             /\ cache' = cache]_vars

====
